---- MODULE Spec2Model ----
(***************************************************************************)
(* HyperTCP test server (src/HyperTCPTestServer.py) as a state machine.    *)
(*                                                                         *)
(* One session thread per accepted connection runs handle_client.  The     *)
(* threads share self.clients, self.device_connections and                 *)
(* self.admin_clients without any lock.  A step of the model is the code   *)
(* a thread runs between two blocking calls (socket recv/send, print),     *)
(* which is where the interpreter hands control to another thread; a       *)
(* block that touches no shared state is merged into its neighbour.  The   *)
(* test-then-delete of an emptied device group (lines 405-406) is taken    *)
(* apart as well: the interpreter may switch threads between the two.      *)
(* Calls nest (handle_client -> route_message -> send_to_device ->         *)
(* cleanup_client_connection -> notify_admin_channels -> ...), so every    *)
(* thread carries a stack of activation records.                           *)
(*                                                                         *)
(* The WebSocket bridge (src/WebSocketBridge.py) is a second state machine *)
(* in the variable bridge: one WebSocketBridge object, the handler task of *)
(* each WebSocket on the event loop and one tcp_listener thread each.      *)
(***************************************************************************)
EXTENDS Integers, Sequences, FiniteSets, TLC

(* ------------------------------ bounds -------------------------------- *)
\* connections the listener accepts
NConn == 2
\* the same, in the specification of the admin feed
FeedConn == 3
\* frames the clients send, over all connections
MaxFrames == 2
\* the same, when the clients keep to the frames of RaceNext
RaceFrames == 3
\* connections whose peer goes away
MaxBreaks == 1
\* further client frames, and departing peers, in the specification of the
\* admin feed
FeedFrames == 1
FeedBreaks == 2
\* client frames in the specification of direct delivery in order
OrderFrames == 4
\* WebSocket clients of the bridge
\* peer addresses (host, port) a connection is accepted from
NAddr == 2

NWs == 2
\* binary messages the WebSocket clients send, over all of them
BridgeMsgs == 1
\* frames the broker writes to the bridge, over all its connections
BridgeFrames == 1

(* ------------------------- protocol constants ------------------------- *)
HYPER_TCP_CMD_RESPONSE == 0
HYPER_TCP_CMD_PING == 6
HYPER_TCP_CMD_LOGIN == 29
HYPER_TCP_CMD_JSON_MESSAGE == 30
HYPER_TCP_CMD_REDIRECT == 41
HYPER_TCP_CMD_BROADCAST == 50
HYPER_TCP_STATUS_SUCCESS == 200
HYPER_TCP_STATUS_INVALID_TOKEN == 9
STATUS_INVALID_COMMAND == 2

ADMIN_TOKEN == "admin_token"
DEVICE_TOKEN == "your_auth_token_here"
ADMIN_PREFIX == <<"a", "d", "m", "i", "n", "_">>
None == "None"

(* --------------------------- input alphabet --------------------------- *)
ConnName == <<"client_1", "client_2", "client_3", "client_4">>
\* every connection of any specification, and those that connect when the
\* listener accepts NConn
Conns == {ConnName[k] : k \in 1..FeedConn}
Pair == {ConnName[k] : k \in 1..NConn}
ConnIndex(c) == CHOOSE k \in 1..FeedConn : ConnName[k] = c

Tokens == {DEVICE_TOKEN, ADMIN_TOKEN, "bad"}
\* the JSON logins the clients try: an accepted device, an accepted admin, a
\* rejected device and a rejected admin
LoginChoices ==
    {<<DEVICE_TOKEN, "A">>, <<ADMIN_TOKEN, "admin_1">>, <<"bad", "A">>,
     <<DEVICE_TOKEN, "admin_1">>}
\* accepted logins of two devices
RaceLogins == {<<DEVICE_TOKEN, "A">>, <<DEVICE_TOKEN, "B">>}
\* the JSON_MESSAGE payloads the clients send: <<targetId, payload.command>>
\* of a well-formed envelope, and a payload that is not JSON
Malformed == <<"", "">>
\* a payload that is JSON but not an object, such as [1]
NotAnObject == <<"", "array">>
EnvelopeChoices ==
    {<<"broadcast", "none">>, <<"server", "ping">>, <<"A", "none">>,
     <<"nobody", "none">>, Malformed, NotAnObject}
\* the payloads of BROADCAST: an envelope, text that is not JSON, a JSON array
PayloadKinds == {"object", "text", "array"}
\* the from field a client puts in its envelope
FORGED == "forged"
UnknownTypes == {HYPER_TCP_CMD_REDIRECT, 99}
\* the credentials the admission rule is tried on; a login without a
\* device_id gets the connection's own identifier (line 138)
AuthTokens == {DEVICE_TOKEN, ADMIN_TOKEN, "bad", ""}
AuthIds ==
    {"A", "admin_1", "admin_", "admin", "xadmin_1", "Admin_1", "", "client_1"}

\* The characters of an identifier (TLC's strings are atomic).
Spell(s) ==
    CASE s = "A"        -> <<"A">>
      [] s = "B"        -> <<"B">>
      [] s = "admin_1"  -> <<"a", "d", "m", "i", "n", "_", "1">>
      [] s = "admin_"   -> <<"a", "d", "m", "i", "n", "_">>
      [] s = "admin"    -> <<"a", "d", "m", "i", "n">>
      [] s = "xadmin_1" -> <<"x", "a", "d", "m", "i", "n", "_", "1">>
      [] s = "Admin_1"  -> <<"A", "d", "m", "i", "n", "_", "1">>
      [] s = ""         -> << >>
      [] OTHER          -> <<"c", "l", "i", "e", "n", "t", "_">>

\* str.startswith
StartsWith(s, p) == Len(s) >= Len(p) /\ SubSeq(s, 1, Len(p)) = p

(* ---------------------------- admission ------------------------------- *)
\* line 143: is_admin of a JSON login
ClassifyJson(token, device_id) ==
    StartsWith(Spell(device_id), ADMIN_PREFIX) \/ token = ADMIN_TOKEN

\* line 203: is_admin of a legacy (raw token) login
ClassifyLegacy(token) == token = ADMIN_TOKEN

\* lines 146-151 / 208-213: the credential check
MutAuthenticate(is_admin, token) ==
    IF is_admin THEN token = ADMIN_TOKEN ELSE token # "bad"

Authenticate(is_admin, token) ==
    IF is_admin THEN token = ADMIN_TOKEN ELSE token = DEVICE_TOKEN

\* the status byte of the LOGIN reply
MutLoginStatus(authenticated) ==
    IF authenticated THEN HYPER_TCP_STATUS_SUCCESS ELSE 5

LoginStatus(authenticated) ==
    IF authenticated THEN HYPER_TCP_STATUS_SUCCESS
    ELSE HYPER_TCP_STATUS_INVALID_TOKEN

(* ----------------------------- messages ------------------------------- *)
\* A frame the server writes.  cause names the client frame that made the
\* server write it, <<connection, MsgId>>, kept for attribution only.
NoCause == <<"", 0>>
NoBody == [type |-> "", command |-> ""]
NoMsg ==
    [type |-> -1, msg_id |-> 0, kind |-> "", st |-> 0, ev |-> "", dev |-> "",
     cid |-> "", from |-> "", tgt |-> "", cmd |-> "", cause |-> NoCause,
     body |-> NoBody]

\* dict.update, and dict item assignment
Update(d, e) ==
    [k \in DOMAIN d \cup DOMAIN e |-> IF k \in DOMAIN e THEN e[k] ELSE d[k]]

\* lines 191, 220, 329: HyperTCPHeader(RESPONSE, header.msg_id, 1)
MutResponse(c, msg_id, st) ==
    [NoMsg EXCEPT !.type = HYPER_TCP_CMD_RESPONSE, !.msg_id = 0,
                  !.kind = "status", !.st = st, !.cause = <<c, msg_id>>]

Response(c, msg_id, st) ==
    [NoMsg EXCEPT !.type = HYPER_TCP_CMD_RESPONSE, !.msg_id = msg_id,
                  !.kind = "status", !.st = st, !.cause = <<c, msg_id>>]

\* lines 259, 290, 315: HyperTCPHeader(RESPONSE, header.msg_id, 0)
MutAck(c, msg_id) == Response(c, msg_id, HYPER_TCP_STATUS_SUCCESS)

Ack(c, msg_id) ==
    [NoMsg EXCEPT !.type = HYPER_TCP_CMD_RESPONSE, !.msg_id = msg_id,
                  !.kind = "ack", !.cause = <<c, msg_id>>]

Welcome(client_id, cause) ==
    [NoMsg EXCEPT !.type = HYPER_TCP_CMD_JSON_MESSAGE, !.kind = "welcome",
                  !.cid = client_id, !.cause = cause]

Event(ev, device_id, client_id, cause) ==
    [NoMsg EXCEPT !.type = HYPER_TCP_CMD_JSON_MESSAGE, !.kind = "event",
                  !.ev = ev, !.dev = device_id, !.cid = client_id,
                  !.cause = cause]

\* line 280 / 309: message["from"] = sender_id
MutStamp(envelope, sender_id) == envelope

Stamp(envelope, sender_id) == Update(envelope, [from |-> sender_id])

\* The envelope as delivered: the sender's JSON object, stamped.
Routed(sender_id, target_id, cmd, cause) ==
    LET message == Stamp([targetId |-> target_id, from |-> FORGED], sender_id)
    IN [NoMsg EXCEPT !.type = HYPER_TCP_CMD_JSON_MESSAGE, !.kind = "routed",
                     !.from = message.from, !.tgt = message.targetId,
                     !.cmd = cmd, !.cause = cause]

\* the payload of an envelope whose payload.command is "ping"
PingPayload == [command |-> "ping", nonce |-> "42"]

\* lines 522-536: pong_data, updated with the ping payload
Pong(ping_payload, cause) ==
    LET pong_data ==
            Update([type |-> "pong", command |-> "pong", timestamp |-> "now"],
                   ping_payload)
    IN [NoMsg EXCEPT !.type = HYPER_TCP_CMD_JSON_MESSAGE, !.kind = "pong",
                     !.cmd = pong_data.command, !.body = pong_data,
                     !.cause = cause]

\* The PayloadLen of the header: 0 for an ack, 1 for a status byte, and the
\* length of the encoded JSON otherwise (any length above 1; 2 stands for it).
PayloadLen(m) ==
    IF m.kind = "ack" THEN 0 ELSE IF m.kind = "status" THEN 1 ELSE 2

\* A frame a client sends.
NoFrame ==
    [type |-> -1, msg_id |-> 0, json |-> FALSE, obj |-> FALSE, token |-> "",
     device_id |-> "", target |-> "", cmd |-> ""]

(* ------------------------- activation records ------------------------- *)
Fr(proc, pc) ==
    [proc |-> proc, pc |-> pc, x |-> "", d |-> "", todo |-> << >>,
     i |-> 0, j |-> 0, n0 |-> 0, n |-> 0, m |-> NoMsg, fr |-> NoFrame,
     onerr |-> "", told |-> << >>,
     path |-> "", status |-> 0, was_auth |-> FALSE, g0 |-> 0, a0 |-> FALSE]

Top(s) == s[Len(s)]
Pop(s) == SubSeq(s, 1, Len(s) - 1)
Push(s, f) == Append(s, f)
SetTop(s, f) == [s EXCEPT ![Len(s)] = f]

SendFrame(to, m, onerr) ==
    [Fr("send", "hdr") EXCEPT !.x = to, !.m = m, !.onerr = onerr]

CleanupFrame(client_id) == [Fr("cleanup", "begin") EXCEPT !.x = client_id]

VARIABLES
    clients,             \* keys of self.clients, in insertion order
    client_info,         \* the dict each key of self.clients refers to
    device_connections,  \* self.device_connections, in insertion order
    admin_clients,       \* self.admin_clients
    sock,                \* the server's end of each socket: open, closed
    peer,                \* the client's end: up, gone
    wire,                \* the chunks the server wrote on each socket
    stk,                 \* each session thread's activation records
    frames_left,         \* frames the clients may still send
    breaks_left,         \* peers that may still go away
    probe,               \* the admission rule's inputs and outcome
    bridge,              \* the WebSocketBridge object, its sockets and tasks
    server               \* client_counter and the identifiers made from it

vars ==
    <<clients, client_info, device_connections, admin_clients, sock, peer,
      wire, stk, frames_left, breaks_left, probe, bridge, server>>

registry == <<clients, client_info, device_connections, admin_clients>>

\* HyperTCPProtocolServer.__init__ (line 50) and no connection accepted yet.
\* clients: the pairs <<key, socket>> of self.clients under the keys that
\* handle_client made; session: each thread of handle_client before its
\* read loop, the address that accept returned and the values it has read;
\* far: the client's end of each accepted connection.
NoServer ==
    [client_counter |-> 0,
     clients |-> {},
     session |-> [c \in Conns |-> [pc |-> "none", address |-> 0,
                                   temp_client_id |-> None, read |-> 0]],
     far |-> [c \in Conns |-> "none"]]

\* The WebSocket clients of the bridge.  The TCP socket that the handler of
\* a WebSocket opens goes by the name of that WebSocket.
WebName == <<"ws_1", "ws_2", "ws_3">>
Webs == {WebName[k] : k \in 1..NWs}

\* WebSocketBridge.__init__, and no connection yet.  ws: each WebSocket and
\* its handle_websocket task; tcp: each outbound socket, the broker's end
\* (far), the chunks the broker wrote (rx) and the messages written to the
\* broker (tx); listener: each tcp_listener thread and the socket its recv
\* is on; loop: the coroutines submitted to the event loop of that thread.
NoBridge ==
    [tcp_socket |-> None, websocket |-> None, connected |-> FALSE,
     ws |-> [w \in Webs |-> [state |-> "new", code |-> 0, task |-> "none"]],
     tcp |-> [w \in Webs |-> [state |-> "none", far |-> "up",
                              rx |-> << >>, tx |-> << >>]],
     listener |-> [w \in Webs |-> [pc |-> "none", sock |-> None]],
     loop |-> [w \in Webs |-> << >>],
     msgs_left |-> 0, frames_left |-> 0]

NoProbe == [phase |-> "off", json |-> FALSE, token |-> "", device_id |-> "",
            is_admin |-> FALSE, authenticated |-> FALSE, status |-> 0]

(* ---------------------- dictionaries and lists ------------------------ *)
InSeq(x, s) == \E k \in 1..Len(s) : s[k] = x

\* list.remove: the first occurrence
RemoveFirst(s, x) ==
    LET k == CHOOSE n \in 1..Len(s) :
                 s[n] = x /\ \A q \in 1..(n - 1) : s[q] # x
    IN SubSeq(s, 1, k - 1) \o SubSeq(s, k + 1, Len(s))

\* device_connections is a sequence of [key, conns] in insertion order
HasKey(dc, d) == \E k \in 1..Len(dc) : dc[k].key = d
KeyPos(dc, d) == CHOOSE k \in 1..Len(dc) : dc[k].key = d
Group(dc, d) == dc[KeyPos(dc, d)].conns

\* defaultdict(list).__getitem__: a missing key is inserted with []
Touch(dc, d) ==
    IF HasKey(dc, d) THEN dc ELSE Append(dc, [key |-> d, conns |-> << >>])

SetGroup(dc, d, l) == [dc EXCEPT ![KeyPos(dc, d)].conns = l]

\* self.device_connections[d].append(c)
GroupAppend(dc, d, c) ==
    LET t == Touch(dc, d) IN SetGroup(t, d, Append(Group(t, d), c))

\* del self.device_connections[d]
DelKey(dc, d) ==
    LET k == KeyPos(dc, d) IN SubSeq(dc, 1, k - 1) \o SubSeq(dc, k + 1, Len(dc))

\* del self.clients[c]
MutDelClient(cl, c) == cl

DelClient(cl, c) == RemoveFirst(cl, c)

\* self.admin_clients.copy(), iterated in connection order
AdminCopy(admins) ==
    LET pick[k \in 0..FeedConn] ==
            IF k = 0 THEN << >>
            ELSE IF ConnName[k] \in admins THEN Append(pick[k - 1], ConnName[k])
                 ELSE pick[k - 1]
    IN pick[FeedConn]

Init ==
    /\ clients = << >>
    /\ client_info =
           [c \in Conns |->
               [authenticated |-> FALSE, device_id |-> None, is_admin |-> FALSE]]
    /\ device_connections = << >>
    /\ admin_clients = {}
    /\ sock = [c \in Conns |-> "open"]
    /\ peer = [c \in Conns |-> "up"]
    /\ wire = [c \in Conns |-> << >>]
    /\ stk = [c \in Conns |-> << >>]
    /\ frames_left = MaxFrames
    /\ breaks_left = MaxBreaks
    /\ probe = NoProbe
    /\ server = NoServer
    /\ bridge = NoBridge


(* ------------------------ sessions and sockets ------------------------ *)
At(t, proc, pc) ==
    /\ stk[t] # << >>
    /\ Top(stk[t]).proc = proc
    /\ Top(stk[t]).pc = pc

\* every position a connection holds in the device groups
Places(dc, c) ==
    {p \in UNION {{<<k, n>> : n \in 1..Len(dc[k].conns)} : k \in 1..Len(dc)} :
        dc[p[1]].conns[p[2]] = c}

Membership(dc, c) == Cardinality(Places(dc, c))

\* An exception raised in the top record: records are dropped up to the
\* nearest handler.  send_initial_connection_status catches everything
\* (line 363) and returns; handle_client catches everything (line 334) and
\* runs its finally; an exception raised inside that finally ends the thread.
RECURSIVE Raise(_)
Raise(s) ==
    LET f == Top(s) IN
    IF f.proc = "hc" THEN
        IF f.pc = "closing" THEN SetTop(s, [f EXCEPT !.pc = "dead"])
        ELSE SetTop(s, [f EXCEPT !.pc = "finally"])
    ELSE IF f.proc = "snapshot" THEN Pop(s)
    ELSE Raise(Pop(s))

\* The code of thread t that follows a step and touches nothing shared, up
\* to its next blocking call or shared access: a loop over an exhausted copy
\* returns (lines 433, 458, 479); a failed broadcast write calls cleanup
\* (lines 467-470); the JSON login path replies after the welcome and the
\* events, the legacy path has replied already (lines 191-197); a routed
\* frame is followed by the pong of a ping command and by the ack (lines
\* 285-291, 314-316); the end of the session calls cleanup (lines 336-338).
RECURSIVE Settle(_, _)
Settle(t, s) ==
    IF s = << >> THEN s
    ELSE
    LET f == Top(s)
        to(pc) == SetTop(s, [f EXCEPT !.pc = pc])
    IN
    CASE f.proc \in {"bcast", "todev", "notify"} /\ f.pc = "loop"
              /\ f.todo = << >> ->
            Settle(t, Pop(s))
      [] f.proc = "bcast" /\ f.pc = "failed" ->
            Push(to("loop"), CleanupFrame(f.x))
      [] f.proc = "hc" /\ f.pc = "after_reg" ->
            IF f.path = "json"
            THEN Push(to("loop"),
                      SendFrame(t, Response(t, f.fr.msg_id, f.status), "raise"))
            ELSE to("loop")
      [] f.proc = "hc" /\ f.pc = "routed" ->
            IF f.fr.type = HYPER_TCP_CMD_JSON_MESSAGE /\ f.fr.cmd = "ping"
            THEN Push(to("ack"), SendFrame(t, Pong(PingPayload, <<t, f.fr.msg_id>>),
                                     "swallow"))
            ELSE Push(to("loop"), SendFrame(t, Ack(t, f.fr.msg_id), "raise"))
      [] f.proc = "hc" /\ f.pc = "ack" ->
            Push(to("loop"), SendFrame(t, Ack(t, f.fr.msg_id), "raise"))
      [] f.proc = "hc" /\ f.pc = "finally" ->
            Push(to("closing"), CleanupFrame(t))
      [] OTHER -> s

Run(t, s) == stk' = [stk EXCEPT ![t] = Settle(t, s)]

\* socket.send returns or raises.  It raises on a socket the server closed
\* and on a connection whose peer is gone; the peer may be found gone at
\* any write.
SendOutcomes(x) ==
    IF sock[x] = "closed" \/ peer[x] = "gone" THEN {FALSE}
    ELSE IF breaks_left > 0 THEN {TRUE, FALSE}
    ELSE {TRUE}

\* The caller's stack after a send raised.
SendFailed(s) ==
    LET f == Top(s)
        s1 == Pop(s)
    IN CASE f.onerr = "swallow" -> s1
         [] f.onerr = "raise"   -> Raise(s1)
         [] OTHER               -> SetTop(s1, [Top(s1) EXCEPT !.pc = f.onerr])

\* The connection after a write to x raised.
Broken(x) ==
    /\ peer' = [peer EXCEPT ![x] = IF sock[x] = "open" THEN "gone" ELSE @]
    /\ breaks_left' =
           IF sock[x] = "open" /\ peer[x] = "up" THEN breaks_left - 1
           ELSE breaks_left

\* socket.send: the bytes follow those the socket was given before
MutSent(w, chunk) == <<chunk>> \o w

Sent(w, chunk) == Append(w, chunk)

\* socket.send(header.pack())
SendHeader(t) ==
    /\ At(t, "send", "hdr")
    /\ LET f == Top(stk[t]) IN
       \E ok \in SendOutcomes(f.x) :
          IF ok
          THEN /\ wire' = [wire EXCEPT ![f.x] =
                              Sent(@, [part |-> "hdr", m |-> f.m, by |-> t])]
               /\ Run(t, IF PayloadLen(f.m) = 0 THEN Pop(stk[t])
                         ELSE SetTop(stk[t], [f EXCEPT !.pc = "pay"]))
               /\ UNCHANGED <<peer, breaks_left>>
          ELSE /\ wire' = wire
               /\ Run(t, SendFailed(stk[t]))
               /\ Broken(f.x)
    /\ UNCHANGED <<registry, sock, frames_left, probe, bridge, server>>

\* socket.send(payload_bytes)
SendPayload(t) ==
    /\ At(t, "send", "pay")
    /\ LET f == Top(stk[t]) IN
       \E ok \in SendOutcomes(f.x) :
          IF ok
          THEN /\ wire' = [wire EXCEPT ![f.x] =
                              Sent(@, [part |-> "pay", m |-> f.m, by |-> t])]
               /\ Run(t, Pop(stk[t]))
               /\ UNCHANGED <<peer, breaks_left>>
          ELSE /\ wire' = wire
               /\ Run(t, SendFailed(stk[t]))
               /\ Broken(f.x)
    /\ UNCHANGED <<registry, sock, frames_left, probe, bridge, server>>

\* lines 64-73, 96-113: the listener accepts a connection and its thread
\* registers it
Accept(c) ==
    /\ stk[c] = << >>
    /\ \A k \in 1..(ConnIndex(c) - 1) : stk[ConnName[k]] # << >>
    /\ clients' = Append(clients, c)
    /\ client_info' = [client_info EXCEPT ![c] =
           [authenticated |-> FALSE, device_id |-> None, is_admin |-> FALSE]]
    /\ Run(c, <<Fr("hc", "loop")>>)
    /\ UNCHANGED <<device_connections, admin_clients, sock, peer, wire,
                   frames_left, breaks_left, probe, bridge, server>>

CanRecv(c) ==
    /\ At(c, "hc", "loop")
    /\ sock[c] = "open"
    /\ peer[c] = "up"
    /\ frames_left > 0

NextId(c) == Top(stk[c]).n + 1

\* The record of handle_client once a frame is read.
Got(c, frame) ==
    [Top(stk[c]) EXCEPT
        !.fr = frame,
        !.todo = << >>,
        !.n = frame.msg_id,
        !.was_auth = client_info[c].authenticated,
        !.g0 = Membership(device_connections, c),
        !.a0 = c \in admin_clients]

\* lines 117-119, 127-129: recv_all returns None or recv raises, because
\* the peer went away or the socket was closed under the reader
RecvEOF(c) ==
    /\ At(c, "hc", "loop")
    /\ ~(sock[c] = "open" /\ peer[c] = "up" /\ breaks_left = 0)
    /\ Broken(c)
    /\ Run(c, SetTop(stk[c], [Top(stk[c]) EXCEPT !.pc = "finally"]))
    /\ UNCHANGED <<registry, sock, wire, frames_left, probe, bridge, server>>

(* ------------------------------ LOGIN --------------------------------- *)
LoginFrame(c, json, token, device_id) ==
    [NoFrame EXCEPT !.type = HYPER_TCP_CMD_LOGIN, !.msg_id = NextId(c),
                    !.json = json, !.token = token, !.device_id = device_id]

\* What follows the registration of an accepted login: the welcome, then the
\* snapshot (admin) or, after line 177 / 241, the deviceConnected event.
Registered(s, hc, c, is_admin) ==
    IF is_admin
    THEN Push(SetTop(s, [hc EXCEPT !.pc = "adm_snapshot"]),
              SendFrame(c, Welcome(c, <<c, hc.fr.msg_id>>), "swallow"))
    ELSE SetTop(s, [hc EXCEPT !.pc = "dev_count"])

\* lines 132-176, 188-189: a LOGIN whose payload parses as JSON
RecvLoginJson(c, choices) ==
    /\ CanRecv(c)
    /\ \E choice \in choices :
         LET token == choice[1]
             device_id == choice[2]
             frame == LoginFrame(c, TRUE, token, device_id)
             is_admin == ClassifyJson(token, device_id)
             authenticated == Authenticate(is_admin, token)
             hc == [Got(c, frame) EXCEPT !.path = "json", !.d = device_id,
                                         !.status = LoginStatus(authenticated)]
         IN
         IF ~InSeq(c, clients)
         THEN \* KeyError at line 154
              /\ Run(c, Raise(SetTop(stk[c], hc)))
              /\ UNCHANGED registry
         ELSE /\ client_info' = [client_info EXCEPT ![c] =
                     [authenticated |-> authenticated,
                      is_admin |-> is_admin,
                      device_id |-> IF authenticated THEN device_id
                                    ELSE @.device_id]]
              /\ admin_clients' =
                     IF authenticated /\ is_admin
                     THEN admin_clients \cup {c} ELSE admin_clients
              /\ device_connections' =
                     IF authenticated /\ ~is_admin
                     THEN GroupAppend(device_connections, device_id, c)
                     ELSE device_connections
              /\ clients' = clients
              /\ Run(c, IF authenticated
                        THEN Registered(stk[c], hc, c, is_admin)
                        ELSE Push(SetTop(stk[c], [hc EXCEPT !.pc = "finally"]),
                                  SendFrame(c, Response(c, frame.msg_id,
                                                        hc.status), "raise")))
    /\ frames_left' = frames_left - 1
    /\ UNCHANGED <<sock, peer, wire, breaks_left, probe, bridge, server>>
\* line 202: device_id = temp_client_id
MutLegacyId(temp_client_id) == "A"

LegacyId(temp_client_id) == temp_client_id

\* lines 199-223: a LOGIN whose payload is not JSON; the reply is sent first
RecvLoginLegacy(c, tokens) ==
    /\ CanRecv(c)
    /\ \E token \in tokens :
         LET device_id == LegacyId(c)
             frame == LoginFrame(c, FALSE, token, device_id)
             is_admin == ClassifyLegacy(token)
             authenticated == Authenticate(is_admin, token)
             hc == [Got(c, frame) EXCEPT !.path = "legacy", !.d = device_id,
                                         !.status = LoginStatus(authenticated)]
         IN
         IF ~InSeq(c, clients)
         THEN \* KeyError at line 216
              /\ Run(c, Raise(SetTop(stk[c], hc)))
              /\ UNCHANGED registry
         ELSE /\ client_info' = [client_info EXCEPT ![c] =
                     [authenticated |-> authenticated,
                      is_admin |-> is_admin,
                      device_id |-> device_id]]
              /\ Run(c, Push(SetTop(stk[c],
                                 [hc EXCEPT !.pc = IF authenticated
                                                   THEN "lg_register"
                                                   ELSE "finally"]),
                             SendFrame(c, Response(c, frame.msg_id, hc.status),
                                       "raise")))
              /\ UNCHANGED <<clients, device_connections, admin_clients>>
    /\ frames_left' = frames_left - 1
    /\ UNCHANGED <<sock, peer, wire, breaks_left, probe, bridge, server>>

\* lines 225-240: the legacy path registers after the reply
LegacyRegister(c) ==
    /\ At(c, "hc", "lg_register")
    /\ LET hc == Top(stk[c])
           is_admin == ClassifyLegacy(hc.fr.token)
       IN
       /\ admin_clients' =
              IF is_admin THEN admin_clients \cup {c} ELSE admin_clients
       /\ device_connections' =
              IF is_admin THEN device_connections
              ELSE GroupAppend(device_connections, hc.d, c)
       /\ Run(c, Registered(stk[c], hc, c, is_admin))
    /\ UNCHANGED <<clients, client_info, sock, peer, wire, frames_left, breaks_left,
                   probe, bridge, server>>

\* lines 177-179 / 241-243: len(self.device_connections[device_id]) inside
\* the print, then the welcome
LoginDeviceCount(c) ==
    /\ At(c, "hc", "dev_count")
    /\ LET hc == Top(stk[c]) IN
       /\ device_connections' = Touch(device_connections, hc.d)
       /\ Run(c, Push(SetTop(stk[c], [hc EXCEPT !.pc = "dev_notify"]),
                      SendFrame(c, Welcome(c, <<c, hc.fr.msg_id>>), "swallow")))
    /\ UNCHANGED <<clients, client_info, admin_clients, sock, peer, wire,
                   frames_left, breaks_left, probe, bridge, server>>

\* line 432: notify_admin_channels copies the admin set
NotifyFrame(event_data) ==
    [Fr("notify", "loop") EXCEPT !.m = event_data,
                                 !.todo = AdminCopy(admin_clients)]

\* lines 181-187 / 245-251: notify_admin_channels(deviceConnected)
LoginDeviceNotify(c) ==
    /\ At(c, "hc", "dev_notify")
    /\ LET hc == Top(stk[c]) IN
       Run(c, Push(SetTop(stk[c], [hc EXCEPT
                                      !.pc = "after_reg",
                                      !.todo = AdminCopy(admin_clients)]),
                   NotifyFrame(Event("deviceConnected", hc.d, c,
                                     <<c, hc.fr.msg_id>>))))
    /\ UNCHANGED <<registry, sock, peer, wire, frames_left, breaks_left, probe, bridge, server>>

\* lines 170 / 234, 342-347: send_initial_connection_status starts
LoginAdminSnapshot(c) ==
    /\ At(c, "hc", "adm_snapshot")
    /\ LET hc == Top(stk[c]) IN
       Run(c, IF ~InSeq(c, clients)
              THEN SetTop(stk[c], [hc EXCEPT !.pc = "after_reg"])
              ELSE Push(SetTop(stk[c], [hc EXCEPT !.pc = "after_reg"]),
                        [Fr("snapshot", "loop") EXCEPT
                            !.x = c, !.n0 = Len(device_connections),
                            !.m = [NoMsg EXCEPT !.cause = <<c, hc.fr.msg_id>>]]))
    /\ UNCHANGED <<registry, sock, peer, wire, frames_left, breaks_left, probe, bridge, server>>

(* ---------------------- PING, RESPONSE, unknown ----------------------- *)
\* lines 256-260: no authentication check
RecvPing(c) ==
    /\ CanRecv(c)
    /\ LET frame == [NoFrame EXCEPT !.type = HYPER_TCP_CMD_PING,
                                    !.msg_id = NextId(c)]
       IN Run(c, Push(SetTop(stk[c], Got(c, frame)),
                      SendFrame(c, Ack(c, frame.msg_id), "raise")))
    /\ frames_left' = frames_left - 1
    /\ UNCHANGED <<registry, sock, peer, wire, breaks_left, probe, bridge, server>>

\* lines 323-325
RecvResponse(c) ==
    /\ CanRecv(c)
    /\ LET frame == [NoFrame EXCEPT !.type = HYPER_TCP_CMD_RESPONSE,
                                    !.msg_id = NextId(c)]
       IN Run(c, SetTop(stk[c], Got(c, frame)))
    /\ frames_left' = frames_left - 1
    /\ UNCHANGED <<registry, sock, peer, wire, breaks_left, probe, bridge, server>>

\* lines 329-332: the reply to a frame of another type
MutUnknownReply(c, msg_id) == Ack(c, msg_id)

UnknownReply(c, msg_id) == Response(c, msg_id, STATUS_INVALID_COMMAND)

\* lines 327-332: any other type, REDIRECT included
RecvUnknown(c, types) ==
    /\ CanRecv(c)
    /\ \E type \in types :
         LET frame == [NoFrame EXCEPT !.type = type, !.msg_id = NextId(c)]
         IN Run(c, Push(SetTop(stk[c], Got(c, frame)),
                        SendFrame(c, UnknownReply(c, frame.msg_id), "raise")))
    /\ frames_left' = frames_left - 1
    /\ UNCHANGED <<registry, sock, peer, wire, breaks_left, probe, bridge, server>>

(* --------------------- JSON_MESSAGE and BROADCAST --------------------- *)
\* Line 263 / 299 alone decides whether the frame is handled.
MutMayRoute(c) == TRUE

MayRoute(c) == client_info[c].authenticated

\* lines 262-280, 293-296 and 298-309, 318-321: the envelope is parsed and
\* stamped with the sender's device id
Envelope(c, frame) ==
    LET hc == Got(c, frame) IN
    IF ~InSeq(c, clients)
    THEN Raise(SetTop(stk[c], hc))                  \* KeyError at line 263
    ELSE IF ~MayRoute(c)
    THEN SetTop(stk[c], [hc EXCEPT !.pc = "finally"])   \* break
    ELSE IF ~frame.json
    THEN SetTop(stk[c], hc)                          \* JSONDecodeError: logged
    ELSE IF ~frame.obj
    THEN Raise(SetTop(stk[c], hc))     \* AttributeError 272, TypeError 309
    ELSE SetTop(stk[c],
                [hc EXCEPT !.pc = "route",
                           !.m = Routed(client_info[c].device_id, frame.target,
                                        frame.cmd, <<c, frame.msg_id>>)])

RecvJson(c, envelopes) ==
    /\ CanRecv(c)
    /\ \E e \in envelopes :
         Run(c, Envelope(c, [NoFrame EXCEPT
                                !.type = HYPER_TCP_CMD_JSON_MESSAGE,
                                !.msg_id = NextId(c), !.json = e # Malformed,
                                !.obj = e \notin {Malformed, NotAnObject},
                                !.target = e[1], !.cmd = e[2]]))
    /\ frames_left' = frames_left - 1
    /\ UNCHANGED <<registry, sock, peer, wire, breaks_left, probe, bridge, server>>

RecvBroadcast(c, wellformed) ==
    /\ CanRecv(c)
    /\ \E kind \in wellformed :
         Run(c, Envelope(c, [NoFrame EXCEPT
                                !.type = HYPER_TCP_CMD_BROADCAST,
                                !.msg_id = NextId(c), !.json = kind # "text",
                                !.obj = kind = "object",
                                !.target = "broadcast", !.cmd = "none"]))
    /\ frames_left' = frames_left - 1
    /\ UNCHANGED <<registry, sock, peer, wire, breaks_left, probe, bridge, server>>

\* lines 283, 312, 436-457, 476-478: route_message picks the recipients and
\* copies their list.  The handler's record keeps in todo the recipients the
\* frame is owed to: the authenticated connections of the copy of line 456,
\* the copy of the group of line 478.
Route(c) ==
    /\ At(c, "hc", "route")
    /\ LET hc == Top(stk[c])
           owed == IF hc.fr.type = HYPER_TCP_CMD_BROADCAST
                      \/ hc.m.tgt = "broadcast"
                   THEN SelectSeq(clients,
                                  LAMBDA x : client_info[x].authenticated)
                   ELSE IF hc.m.tgt # "server"
                           /\ HasKey(device_connections, hc.m.tgt)
                   THEN Group(device_connections, hc.m.tgt)
                   ELSE << >>
           s == SetTop(stk[c], [hc EXCEPT !.pc = "routed", !.todo = owed])
       IN Run(c,
            IF hc.fr.type = HYPER_TCP_CMD_BROADCAST \/ hc.m.tgt = "broadcast"
            THEN Push(s, [Fr("bcast", "loop") EXCEPT !.m = hc.m,
                                                     !.todo = clients])
            ELSE IF hc.m.tgt = "server" THEN s
            ELSE IF HasKey(device_connections, hc.m.tgt)
            THEN Push(s, [Fr("todev", "loop") EXCEPT
                             !.m = hc.m, !.d = hc.m.tgt,
                             !.todo = Group(device_connections, hc.m.tgt)])
            ELSE s)
    /\ UNCHANGED <<registry, sock, peer, wire, frames_left, breaks_left, probe, bridge, server>>

\* line 460: the test a connection of the copy passes to be written to
MutBroadcastTo(x) == TRUE

BroadcastTo(x) == client_info[x].authenticated

\* lines 458-466: the next recipient of a broadcast; client_info is the
\* dict taken with the copy, so a client already removed is still written to
BroadcastNext(t) ==
    /\ At(t, "bcast", "loop")
    /\ LET f == Top(stk[t])
           x == Head(f.todo)
           f1 == [f EXCEPT !.todo = Tail(@), !.x = x]
       IN Run(t, IF BroadcastTo(x)
                 THEN Push(SetTop(stk[t], f1), SendFrame(x, f.m, "failed"))
                 ELSE SetTop(stk[t], f1))
    /\ UNCHANGED <<registry, sock, peer, wire, frames_left, breaks_left, probe, bridge, server>>

\* lines 479-487: the next connection of the target device
DeviceNext(t) ==
    /\ At(t, "todev", "loop")
    /\ LET f == Top(stk[t])
           x == Head(f.todo)
           f1 == [f EXCEPT !.todo = Tail(@), !.x = x]
       IN Run(t, IF InSeq(x, clients) /\ client_info[x].authenticated
                 THEN Push(SetTop(stk[t], f1), SendFrame(x, f.m, "failed"))
                 ELSE SetTop(stk[t], f1))
    /\ UNCHANGED <<registry, sock, peer, wire, frames_left, breaks_left, probe, bridge, server>>

\* lines 488-491: self.clients[client_id] raises KeyError once the client
\* is gone from the table
DeviceFailed(t) ==
    /\ At(t, "todev", "failed")
    /\ LET f == Top(stk[t]) IN
       Run(t, IF InSeq(f.x, clients)
              THEN Push(SetTop(stk[t], [f EXCEPT !.pc = "loop"]),
                        CleanupFrame(f.x))
              ELSE Raise(stk[t]))
    /\ UNCHANGED <<registry, sock, peer, wire, frames_left, breaks_left, probe, bridge, server>>

(* --------------------------- admin feed ------------------------------- *)
\* line 368: the guard of send_to_admin_client
MutAdminWritable(a) == FALSE

AdminWritable(a) == InSeq(a, clients) /\ client_info[a].authenticated

\* lines 433-434, 366-376
NotifyNext(t) ==
    /\ At(t, "notify", "loop")
    /\ LET f == Top(stk[t])
           a == Head(f.todo)
           f1 == [f EXCEPT !.todo = Tail(@), !.x = a]
       IN Run(t, IF AdminWritable(a)
                 THEN Push(SetTop(stk[t], f1), SendFrame(a, f.m, "failed"))
                 ELSE SetTop(stk[t], f1))
    /\ UNCHANGED <<registry, sock, peer, wire, frames_left, breaks_left, probe, bridge, server>>

\* lines 347-362: the snapshot walks the live dictionary and the live lists.
\* The dictionary iterator raises RuntimeError when the size changed.
SnapshotNext(t) ==
    /\ At(t, "snapshot", "loop")
    /\ LET f == Top(stk[t])
           dc == device_connections
       IN
       Run(t,
         IF f.i > 0 /\ HasKey(dc, f.d) /\ f.j <= Len(Group(dc, f.d))
         THEN LET x == Group(dc, f.d)[f.j]
                  f1 == [f EXCEPT !.j = @ + 1]
              IN IF InSeq(x, clients) /\ AdminWritable(f.x)
                 THEN Push(SetTop(stk[t], f1),
                           SendFrame(f.x, Event("deviceStatus", f.d, x,
                                                f.m.cause), "failed"))
                 ELSE SetTop(stk[t], f1)
         ELSE IF Len(dc) # f.n0 THEN Raise(stk[t])
         ELSE IF f.i + 1 > Len(dc) THEN Pop(stk[t])
         ELSE SetTop(stk[t], [f EXCEPT !.i = @ + 1, !.j = 1,
                                       !.d = dc[f.i + 1].key]))
    /\ UNCHANGED <<registry, sock, peer, wire, frames_left, breaks_left, probe, bridge, server>>

\* lines 377-380: self.clients[admin_client_id] raises KeyError once the
\* admin is gone from the table
AdminSendFailed(t) ==
    /\ stk[t] # << >>
    /\ Top(stk[t]).proc \in {"notify", "snapshot"}
    /\ Top(stk[t]).pc = "failed"
    /\ LET f == Top(stk[t]) IN
       Run(t, IF InSeq(f.x, clients)
              THEN Push(SetTop(stk[t], [f EXCEPT !.pc = "loop"]),
                        CleanupFrame(f.x))
              ELSE Raise(stk[t]))
    /\ UNCHANGED <<registry, sock, peer, wire, frames_left, breaks_left, probe, bridge, server>>

(* ----------------------------- cleanup -------------------------------- *)
\* lines 399-400: the connection is in the group of its device id
InGroup(dc, d, x) ==
    d # None /\ d # "" /\ HasKey(dc, d) /\ InSeq(x, Group(dc, d))

\* line 405, on the defaultdict: not self.device_connections[device_id]
MutGroupEmpty(dc, d) == TRUE

GroupEmpty(dc, d) == Group(Touch(dc, d), d) = << >>

\* lines 384-402
CleanupBegin(t) ==
    /\ At(t, "cleanup", "begin")
    /\ LET f == Top(stk[t])
           x == f.x
           device_id == client_info[x].device_id
           is_admin == client_info[x].is_admin
           leaves == ~is_admin /\ InGroup(device_connections, device_id, x)
       IN
       IF ~InSeq(x, clients)
       THEN /\ Run(t, SetTop(stk[t], [f EXCEPT !.pc = "close"]))
            /\ UNCHANGED <<clients, device_connections, admin_clients>>
       ELSE /\ clients' = DelClient(clients, x)
            /\ admin_clients' =
                   IF is_admin THEN admin_clients \ {x} ELSE admin_clients
            /\ device_connections' =
                   IF leaves
                   THEN SetGroup(device_connections, device_id,
                            RemoveFirst(Group(device_connections, device_id), x))
                   ELSE device_connections
            /\ Run(t, SetTop(stk[t],
                        [f EXCEPT !.pc = IF leaves THEN "check" ELSE "close",
                                  !.d = device_id]))
    /\ UNCHANGED <<client_info, sock, peer, wire, frames_left, breaks_left, probe, bridge, server>>

\* lines 404-405: the group is tested.  The interpreter may hand control
\* to another thread between this test and the del of line 406, so the two
\* are separate steps.  A group that is not empty stays: lines 409-416, 432,
\* deviceDisconnected.
CleanupEmptyCheck(t) ==
    /\ At(t, "cleanup", "check")
    /\ LET f == Top(stk[t]) IN
       /\ device_connections' = Touch(device_connections, f.d)
       /\ Run(t, IF GroupEmpty(device_connections, f.d)
                 THEN SetTop(stk[t], [f EXCEPT !.pc = "del"])
                 ELSE Push(SetTop(stk[t], [f EXCEPT !.pc = "close",
                                                    !.told = AdminCopy(admin_clients)]),
                           NotifyFrame(Event("deviceDisconnected", f.d, f.x,
                                             NoCause))))
    /\ UNCHANGED <<clients, client_info, admin_clients, sock, peer, wire,
                   frames_left, breaks_left, probe, bridge, server>>

\* lines 406-416, 432: del self.device_connections[device_id], whatever the
\* list holds by now, then deviceDisconnected; KeyError when another cleanup
\* has deleted the key
CleanupDelete(t) ==
    /\ At(t, "cleanup", "del")
    /\ LET f == Top(stk[t]) IN
       IF HasKey(device_connections, f.d)
       THEN /\ device_connections' = DelKey(device_connections, f.d)
            /\ Run(t, Push(SetTop(stk[t], [f EXCEPT !.pc = "close",
                                                    !.told = AdminCopy(admin_clients)]),
                           NotifyFrame(Event("deviceDisconnected", f.d, f.x,
                                             NoCause))))
       ELSE /\ device_connections' = device_connections
            /\ Run(t, Raise(stk[t]))
    /\ UNCHANGED <<clients, client_info, admin_clients, sock, peer, wire,
                   frames_left, breaks_left, probe, bridge, server>>

\* lines 422-427; the session is over when this was its own finally (told
\* keeps the admins its deviceDisconnected was addressed to, for attribution)
CleanupClose(t) ==
    /\ At(t, "cleanup", "close")
    /\ LET f == Top(stk[t])
           s1 == Pop(stk[t])
       IN
       /\ sock' = [sock EXCEPT ![f.x] = "closed"]
       /\ Run(t, IF Top(s1).proc = "hc"
                 THEN SetTop(s1, [Top(s1) EXCEPT !.pc = "done",
                                                 !.told = f.told])
                 ELSE s1)
    /\ UNCHANGED <<registry, peer, wire, frames_left, breaks_left, probe, bridge, server>>

(* --------------------------- specification ---------------------------- *)
\* Every frame of the alphabet, on every connection.
Next ==
    \E c \in Pair :
        \/ Accept(c)
        \/ RecvEOF(c)
        \/ RecvLoginJson(c, LoginChoices)
        \/ RecvLoginLegacy(c, Tokens)
        \/ LegacyRegister(c)
        \/ LoginDeviceCount(c)
        \/ LoginDeviceNotify(c)
        \/ LoginAdminSnapshot(c)
        \/ RecvPing(c)
        \/ RecvResponse(c)
        \/ RecvUnknown(c, UnknownTypes)
        \/ RecvJson(c, EnvelopeChoices)
        \/ RecvBroadcast(c, PayloadKinds)
        \/ Route(c)
        \/ BroadcastNext(c)
        \/ DeviceNext(c)
        \/ DeviceFailed(c)
        \/ NotifyNext(c)
        \/ SnapshotNext(c)
        \/ AdminSendFailed(c)
        \/ CleanupBegin(c)
        \/ CleanupEmptyCheck(c)
        \/ CleanupDelete(c)
        \/ CleanupClose(c)
        \/ SendHeader(c)
        \/ SendPayload(c)

Spec == Init /\ [][Next]_vars

\* Longer runs of fewer frames: JSON logins of two devices and well-formed
\* BROADCAST.  No admin connects, so the admin feed has no recipient.
RaceInit ==
    /\ clients = << >>
    /\ client_info =
           [c \in Conns |->
               [authenticated |-> FALSE, device_id |-> None, is_admin |-> FALSE]]
    /\ device_connections = << >>
    /\ admin_clients = {}
    /\ sock = [c \in Conns |-> "open"]
    /\ peer = [c \in Conns |-> "up"]
    /\ wire = [c \in Conns |-> << >>]
    /\ stk = [c \in Conns |-> << >>]
    /\ frames_left = RaceFrames
    /\ breaks_left = MaxBreaks
    /\ probe = NoProbe
    /\ server = NoServer
    /\ bridge = NoBridge

RaceNext ==
    \E c \in Pair :
        \/ Accept(c)
        \/ RecvEOF(c)
        \/ RecvLoginJson(c, RaceLogins)
        \/ LoginDeviceCount(c)
        \/ LoginDeviceNotify(c)
        \/ RecvBroadcast(c, {"object"})
        \/ Route(c)
        \/ BroadcastNext(c)
        \/ CleanupBegin(c)
        \/ CleanupEmptyCheck(c)
        \/ CleanupDelete(c)
        \/ CleanupClose(c)
        \/ SendHeader(c)
        \/ SendPayload(c)

RaceSpec == RaceInit /\ [][RaceNext]_vars

\* Direct delivery: connections log in as device A and address envelopes
\* to A, to a device nobody logged in as and to the server; peers may go
\* away and writes may fail.
RouteLogins == {<<DEVICE_TOKEN, "A">>}
RouteEnvelopes == {<<"A", "none">>, <<"nobody", "none">>, <<"server", "ping">>}

RouteNext ==
    \E c \in Pair :
        \/ Accept(c)
        \/ RecvEOF(c)
        \/ RecvLoginJson(c, RouteLogins)
        \/ LoginDeviceCount(c)
        \/ LoginDeviceNotify(c)
        \/ RecvJson(c, RouteEnvelopes)
        \/ Route(c)
        \/ DeviceNext(c)
        \/ DeviceFailed(c)
        \/ CleanupBegin(c)
        \/ CleanupEmptyCheck(c)
        \/ CleanupDelete(c)
        \/ CleanupClose(c)
        \/ SendHeader(c)
        \/ SendPayload(c)

RouteSpec == RaceInit /\ [][RouteNext]_vars

\* Broadcast among devices and admins while every peer stays up and every
\* write succeeds.
CastLogins == {<<DEVICE_TOKEN, "A">>, <<ADMIN_TOKEN, "admin_1">>}
CastEnvelopes == {<<"broadcast", "none">>}

CastInit ==
    /\ clients = << >>
    /\ client_info =
           [c \in Conns |->
               [authenticated |-> FALSE, device_id |-> None, is_admin |-> FALSE]]
    /\ device_connections = << >>
    /\ admin_clients = {}
    /\ sock = [c \in Conns |-> "open"]
    /\ peer = [c \in Conns |-> "up"]
    /\ wire = [c \in Conns |-> << >>]
    /\ stk = [c \in Conns |-> << >>]
    /\ frames_left = RaceFrames
    /\ breaks_left = 0
    /\ probe = NoProbe
    /\ server = NoServer
    /\ bridge = NoBridge

CastNext ==
    \E c \in Pair :
        \/ Accept(c)
        \/ RecvLoginJson(c, CastLogins)
        \/ LoginDeviceCount(c)
        \/ LoginDeviceNotify(c)
        \/ LoginAdminSnapshot(c)
        \/ RecvJson(c, CastEnvelopes)
        \/ RecvBroadcast(c, {"object"})
        \/ Route(c)
        \/ BroadcastNext(c)
        \/ NotifyNext(c)
        \/ SnapshotNext(c)
        \/ SendHeader(c)
        \/ SendPayload(c)

CastSpec == CastInit /\ [][CastNext]_vars

\* The admin feed.  The first two connections have logged in as device A
\* and their logins are answered (a state of RaceSpec); then connections
\* log in as device A or as an admin and peers go away; nothing is routed.
FeedLogins == {<<DEVICE_TOKEN, "A">>, <<ADMIN_TOKEN, "admin_1">>}

\* the two connections that share device A from the start
Sharers == {ConnName[1], ConnName[2]}

\* handle_client back at line 115 after its accepted device LOGIN
Served(c) ==
    [Fr("hc", "loop") EXCEPT
        !.d = "A", !.n = 1, !.path = "json",
        !.status = HYPER_TCP_STATUS_SUCCESS,
        !.fr = [NoFrame EXCEPT !.type = HYPER_TCP_CMD_LOGIN, !.msg_id = 1,
                               !.json = TRUE, !.token = DEVICE_TOKEN,
                               !.device_id = "A"]]

\* what lines 179 and 191-194 wrote to the connection
Answered(c) ==
    LET chunk(part, m) == [part |-> part, m |-> m, by |-> c] IN
    <<chunk("hdr", Welcome(c, <<c, 1>>)),
      chunk("pay", Welcome(c, <<c, 1>>)),
      chunk("hdr", Response(c, 1, HYPER_TCP_STATUS_SUCCESS)),
      chunk("pay", Response(c, 1, HYPER_TCP_STATUS_SUCCESS))>>

FeedStart ==
    /\ clients = <<ConnName[1], ConnName[2]>>
    /\ client_info =
           [c \in Conns |->
               IF c \in Sharers
               THEN [authenticated |-> TRUE, device_id |-> "A",
                     is_admin |-> FALSE]
               ELSE [authenticated |-> FALSE, device_id |-> None,
                     is_admin |-> FALSE]]
    /\ device_connections =
           <<[key |-> "A", conns |-> <<ConnName[1], ConnName[2]>>]>>
    /\ admin_clients = {}
    /\ sock = [c \in Conns |-> "open"]
    /\ peer = [c \in Conns |-> "up"]
    /\ wire = [c \in Conns |-> IF c \in Sharers THEN Answered(c) ELSE << >>]
    /\ stk = [c \in Conns |-> IF c \in Sharers THEN <<Served(c)>> ELSE << >>]
    /\ probe = NoProbe
    /\ server = NoServer
    /\ bridge = NoBridge

FeedInit ==
    /\ FeedStart
    /\ frames_left = FeedFrames
    /\ breaks_left = FeedBreaks

FeedNext ==
    \E c \in Conns :
        \/ Accept(c)
        \/ RecvEOF(c)
        \/ RecvLoginJson(c, FeedLogins)
        \/ LoginDeviceCount(c)
        \/ LoginDeviceNotify(c)
        \/ LoginAdminSnapshot(c)
        \/ NotifyNext(c)
        \/ SnapshotNext(c)
        \/ AdminSendFailed(c)
        \/ CleanupBegin(c)
        \/ CleanupEmptyCheck(c)
        \/ CleanupDelete(c)
        \/ CleanupClose(c)
        \/ SendHeader(c)
        \/ SendPayload(c)

FeedSpec == FeedInit /\ [][FeedNext]_vars

\* Direct delivery in order: connections log in as device A and address
\* envelopes to A while every peer stays up and every write succeeds.
OrderEnvelopes == {<<"A", "none">>}

OrderInit ==
    /\ clients = << >>
    /\ client_info =
           [c \in Conns |->
               [authenticated |-> FALSE, device_id |-> None, is_admin |-> FALSE]]
    /\ device_connections = << >>
    /\ admin_clients = {}
    /\ sock = [c \in Conns |-> "open"]
    /\ peer = [c \in Conns |-> "up"]
    /\ wire = [c \in Conns |-> << >>]
    /\ stk = [c \in Conns |-> << >>]
    /\ frames_left = OrderFrames
    /\ breaks_left = 0
    /\ probe = NoProbe
    /\ server = NoServer
    /\ bridge = NoBridge

OrderNext ==
    \E c \in Pair :
        \/ Accept(c)
        \/ RecvLoginJson(c, RouteLogins)
        \/ LoginDeviceCount(c)
        \/ LoginDeviceNotify(c)
        \/ RecvJson(c, OrderEnvelopes)
        \/ Route(c)
        \/ DeviceNext(c)
        \/ SendHeader(c)
        \/ SendPayload(c)

OrderSpec == OrderInit /\ [][OrderNext]_vars

\* The legacy login: connections log in with a payload that is not JSON,
\* the device token or another text, and address envelopes to the
\* identifier of the first connection.
LegacyNext ==
    \E c \in Pair :
        \/ Accept(c)
        \/ RecvEOF(c)
        \/ RecvLoginLegacy(c, {DEVICE_TOKEN, "bad"})
        \/ LegacyRegister(c)
        \/ LoginDeviceCount(c)
        \/ LoginDeviceNotify(c)
        \/ RecvJson(c, {<<ConnName[1], "none">>})
        \/ Route(c)
        \/ DeviceNext(c)
        \/ DeviceFailed(c)
        \/ CleanupBegin(c)
        \/ CleanupEmptyCheck(c)
        \/ CleanupDelete(c)
        \/ CleanupClose(c)
        \/ SendHeader(c)
        \/ SendPayload(c)

LegacySpec == RaceInit /\ [][LegacyNext]_vars

(* --------------------- the connection identifier ---------------------- *)
\* Lines 64-73 and 95-111 on their own: the listener accepts connections
\* and each thread of handle_client makes the key of its table entry from
\* the peer address and self.client_counter.  The sessions of the broker
\* stand still.

\* line 64: accept returns a connection and the address of its peer.  Of
\* the connections whose peer has not gone away no two have the same
\* address; the address of a peer that went away can come again.
ServerAccept(c, address) ==
    /\ server.session[c].pc = "none"
    /\ \A d \in Conns : server.far[d] = "up"
                            => server.session[d].address # address
    /\ server' = [server EXCEPT !.session[c].pc = "format",
                                !.session[c].address = address,
                                !.far[c] = "up"]
    /\ UNCHANGED <<registry, sock, peer, wire, stk, frames_left, breaks_left,
                   probe, bridge>>

\* line 100: temp_client_id = f"client_{address[0]}_{address[1]}_{self.client_counter}"
FormatId(c) ==
    /\ server.session[c].pc = "format"
    /\ server' = [server EXCEPT
                     !.session[c].pc = "load",
                     !.session[c].temp_client_id =
                         <<server.session[c].address, server.client_counter>>]
    /\ UNCHANGED <<registry, sock, peer, wire, stk, frames_left, breaks_left,
                   probe, bridge>>

\* line 101: self.client_counter += 1, the read and the write of the
\* attribute being two steps of the thread
Increment(c) ==
    /\ \/ /\ server.session[c].pc = "load"
          /\ server' = [server EXCEPT
                           !.session[c].pc = "store",
                           !.session[c].read = server.client_counter]
       \/ /\ server.session[c].pc = "store"
          /\ server' = [server EXCEPT
                           !.session[c].pc = "register",
                           !.client_counter = server.session[c].read + 1]
    /\ UNCHANGED <<registry, sock, peer, wire, stk, frames_left, breaks_left,
                   probe, bridge>>

\* lines 104-111: self.clients[temp_client_id] = {'socket': client_socket, ...}
RegisterClient(c) ==
    /\ server.session[c].pc = "register"
    /\ server' = [server EXCEPT
                     !.session[c].pc = "serving",
                     !.clients =
                         {e \in @ : e[1] # server.session[c].temp_client_id}
                         \cup {<<server.session[c].temp_client_id, c>>}]
    /\ UNCHANGED <<registry, sock, peer, wire, stk, frames_left, breaks_left,
                   probe, bridge>>

\* the peer closes or resets its end
PeerLeaves(c) ==
    /\ server.far[c] = "up"
    /\ server' = [server EXCEPT !.far[c] = "gone"]
    /\ UNCHANGED <<registry, sock, peer, wire, stk, frames_left, breaks_left,
                   probe, bridge>>

\* lines 116-119, 335-338, 384-390: recv returns nothing, the loop ends and
\* cleanup_client_connection deletes the entry under the key of the thread
SessionEnds(c) ==
    /\ server.session[c].pc = "serving"
    /\ server.far[c] = "gone"
    /\ server' = [server EXCEPT
                     !.session[c].pc = "done",
                     !.clients =
                         {e \in @ : e[1] # server.session[c].temp_client_id}]
    /\ UNCHANGED <<registry, sock, peer, wire, stk, frames_left, breaks_left,
                   probe, bridge>>

IdNext ==
    \E c \in Conns :
        \/ \E address \in 1..NAddr : ServerAccept(c, address)
        \/ FormatId(c)
        \/ Increment(c)
        \/ RegisterClient(c)
        \/ PeerLeaves(c)
        \/ SessionEnds(c)

IdSpec == Init /\ [][IdNext]_vars

(* ------------------------- the admission rule ------------------------- *)
\* The credential check of LOGIN on its own, over every credential of
\* AuthTokens and AuthIds, on the JSON path and on the legacy path.
AuthInit ==
    /\ clients = << >>
    /\ client_info =
           [c \in Conns |->
               [authenticated |-> FALSE, device_id |-> None, is_admin |-> FALSE]]
    /\ device_connections = << >>
    /\ admin_clients = {}
    /\ sock = [c \in Conns |-> "open"]
    /\ peer = [c \in Conns |-> "up"]
    /\ wire = [c \in Conns |-> << >>]
    /\ stk = [c \in Conns |-> << >>]
    /\ frames_left = 0
    /\ breaks_left = 0
    /\ probe \in
           {[NoProbe EXCEPT !.phase = "in", !.json = TRUE, !.token = tk,
                            !.device_id = d] : tk \in AuthTokens, d \in AuthIds}
           \cup
           {[NoProbe EXCEPT !.phase = "in", !.json = FALSE, !.token = tk,
                            !.device_id = ConnName[1]] : tk \in AuthTokens}
    /\ server = NoServer
    /\ bridge = NoBridge

\* line 143 / 203
ProbeClassify ==
    /\ probe.phase = "in"
    /\ probe' = [probe EXCEPT
                    !.phase = "classified",
                    !.is_admin = IF probe.json
                                 THEN ClassifyJson(probe.token, probe.device_id)
                                 ELSE ClassifyLegacy(probe.token)]
    /\ UNCHANGED <<registry, sock, peer, wire, stk, frames_left, breaks_left,
                   bridge, server>>

\* lines 146-151 / 208-213
ProbeAuthenticate ==
    /\ probe.phase = "classified"
    /\ probe' = [probe EXCEPT
                    !.phase = "checked",
                    !.authenticated = Authenticate(probe.is_admin, probe.token)]
    /\ UNCHANGED <<registry, sock, peer, wire, stk, frames_left, breaks_left,
                   bridge, server>>

\* lines 148, 151 / 210, 213
ProbeReply ==
    /\ probe.phase = "checked"
    /\ probe' = [probe EXCEPT !.phase = "replied",
                              !.status = LoginStatus(probe.authenticated)]
    /\ UNCHANGED <<registry, sock, peer, wire, stk, frames_left, breaks_left,
                   bridge, server>>

AuthNext == ProbeClassify \/ ProbeAuthenticate \/ ProbeReply

SpecAuth == AuthInit /\ [][AuthNext]_vars

(* ------------------------ the WebSocket bridge ------------------------ *)
\* The broker's sessions stand still while the bridge runs.
broker ==
    <<clients, client_info, device_connections, admin_clients, sock, peer,
      wire, stk, frames_left, breaks_left, probe, server>>

\* lines 74-87, 51-61: a WebSocket is accepted; its handler stores it in the
\* one self.websocket, stores a new socket in the one self.tcp_socket and
\* connects it, and starts a tcp_listener thread.  When the connect fails
\* the handler closes the WebSocket with 1011 and returns.
HandleWebsocket(w) ==
    /\ bridge.ws[w].state = "new"
    /\ \E ok \in BOOLEAN :
         bridge' =
           IF ok
           THEN [bridge EXCEPT
                    !.websocket = w, !.tcp_socket = w, !.connected = TRUE,
                    !.ws[w] = [state |-> "open", code |-> 0, task |-> "serving"],
                    !.tcp[w].state = "open",
                    !.listener[w].pc = "loop"]
           ELSE [bridge EXCEPT
                    !.websocket = w, !.tcp_socket = w,
                    !.ws[w] = [state |-> "closed", code |-> 1011,
                               task |-> "done"],
                    !.tcp[w].state = "unconnected"]
    /\ UNCHANGED broker

\* socket.sendall on socket t: the outcomes
SendallOutcomes(t) ==
    IF bridge.tcp[t].state # "open" THEN {FALSE}
    ELSE IF bridge.tcp[t].far = "up" THEN {TRUE}
    ELSE {TRUE, FALSE}

\* lines 91-94, 107-114: a binary message of WebSocket w is written to
\* self.tcp_socket; when the write raises, self.websocket is closed with 1011
\* (AttributeError when it is None: line 100, then the finally)
ForwardToTcp(w) ==
    /\ bridge.ws[w].state = "open"
    /\ bridge.ws[w].task = "serving"
    /\ bridge.msgs_left > 0
    /\ LET t == bridge.tcp_socket
           x == bridge.websocket
           b == [bridge EXCEPT !.msgs_left = @ - 1]
       IN IF t = None \/ ~bridge.connected
          THEN bridge' = b
          ELSE \E ok \in SendallOutcomes(t) :
                 bridge' =
                   IF ok
                   THEN [b EXCEPT !.tcp[t].tx = Append(@, [from |-> w])]
                   ELSE IF x = None
                   THEN [b EXCEPT !.ws[w].task = "finally"]
                   ELSE IF b.ws[x].state = "open"
                   THEN [b EXCEPT !.ws[x].state = "closed",
                                  !.ws[x].code = 1011]
                   ELSE b
    /\ UNCHANGED broker

\* the WebSocket client closes its connection, or the connection is lost
WsClosed(w) ==
    /\ bridge.ws[w].state = "open"
    /\ bridge' = [bridge EXCEPT !.ws[w].state = "closed", !.ws[w].code = 1000]
    /\ UNCHANGED broker

\* lines 98-105, 63-72: the handler's loop has ended; its finally closes
\* self.tcp_socket, whichever socket that is, and clears self.websocket
DisconnectFromTcpServer(w) ==
    /\ bridge.ws[w].task \in {"serving", "finally"}
    /\ bridge.ws[w].state = "closed" \/ bridge.ws[w].task = "finally"
    /\ LET t == bridge.tcp_socket
           b == [bridge EXCEPT !.ws[w].task = "done", !.websocket = None]
       IN bridge' =
            IF t = None THEN b
            ELSE [b EXCEPT !.tcp[t].state = "closed", !.tcp_socket = None,
                           !.connected = FALSE]
    /\ UNCHANGED broker

\* lines 121-124, 165: the listener tests the shared attributes and calls
\* recv on the socket self.tcp_socket names at that moment
TcpListenerLoop(w) ==
    /\ bridge.listener[w].pc = "loop"
    /\ bridge' =
         IF bridge.connected /\ bridge.tcp_socket # None
         THEN [bridge EXCEPT !.listener[w] =
                                 [pc |-> "hdr", sock |-> bridge.tcp_socket]]
         ELSE [bridge EXCEPT !.listener[w].pc = "lost"]
    /\ UNCHANGED broker

\* recv on socket t returns: with bytes, or with nothing because the broker
\* closed the connection, or with an error because the socket is closed
CanReturn(t) ==
    \/ bridge.tcp[t].state # "open"
    \/ bridge.tcp[t].rx # << >>
    \/ bridge.tcp[t].far = "gone"

HasBytes(t) == bridge.tcp[t].state = "open" /\ bridge.tcp[t].rx # << >>

\* lines 129-132, 144-147, 155-158: run_coroutine_threadsafe(coro, loop), on
\* the loop the thread made at line 118.  The file never runs that loop (no
\* run_forever, no run_until_complete on it), so no step sets ran.
Submitted(b, w, coro) == [b EXCEPT !.loop[w] = Append(@, coro)]

\* lines 124-139: five bytes are read and submitted as a send on
\* self.websocket (AttributeError when it is None), the length is unpacked
\* from them, and the payload is awaited on self.tcp_socket
TcpListenerHeader(w) ==
    /\ bridge.listener[w].pc = "hdr"
    /\ LET t == bridge.listener[w].sock
           x == bridge.websocket
           chunk == Head(bridge.tcp[t].rx)
           b == [bridge EXCEPT !.tcp[t].rx = Tail(@)]
           sent == Submitted(b, w, [op |-> "send", ws |-> x, chunk |-> chunk,
                                    ran |-> FALSE])
       IN /\ CanReturn(t)
          /\ IF ~HasBytes(t)
             THEN bridge' = [bridge EXCEPT !.listener[w].pc = "lost"]
             ELSE IF x = None
             THEN bridge' = [b EXCEPT !.listener[w].pc = "lost"]
             ELSE \E more \in (IF chunk.part = "hdr" THEN {chunk.len > 0}
                               ELSE BOOLEAN) :
                    bridge' =
                      IF ~more
                      THEN [sent EXCEPT !.listener[w].pc = "loop"]
                      ELSE IF b.tcp_socket = None
                      THEN [sent EXCEPT !.listener[w].pc = "lost"]
                      ELSE [sent EXCEPT !.listener[w] =
                                 [pc |-> "pay", sock |-> b.tcp_socket]]
    /\ UNCHANGED broker

\* lines 139-147: the payload is read and submitted as a second send
TcpListenerPayload(w) ==
    /\ bridge.listener[w].pc = "pay"
    /\ LET t == bridge.listener[w].sock
           x == bridge.websocket
           chunk == Head(bridge.tcp[t].rx)
           b == [bridge EXCEPT !.tcp[t].rx = Tail(@)]
       IN /\ CanReturn(t)
          /\ bridge' =
               IF ~HasBytes(t)
               THEN [bridge EXCEPT !.listener[w].pc = "lost"]
               ELSE IF x = None
               THEN [b EXCEPT !.listener[w].pc = "lost"]
               ELSE [Submitted(b, w, [op |-> "send", ws |-> x,
                                      chunk |-> chunk, ran |-> FALSE])
                        EXCEPT !.listener[w].pc = "loop"]
    /\ UNCHANGED broker

\* lines 153-158: after the loop, a close with 1011 is submitted for
\* self.websocket, if there is one
TcpListenerLost(w) ==
    /\ bridge.listener[w].pc = "lost"
    /\ LET x == bridge.websocket
           b == [bridge EXCEPT !.listener[w].pc = "done"]
       IN bridge' =
            IF x = None THEN b
            ELSE Submitted(b, w, [op |-> "close", ws |-> x,
                                  chunk |-> [part |-> "", n |-> 0, len |-> 0,
                                             of |-> None],
                                  ran |-> FALSE])
    /\ UNCHANGED broker

\* the broker writes a frame on connection t: the header, and the payload
\* when PayloadLen is above 0
BrokerSend(t) ==
    /\ bridge.tcp[t].state = "open"
    /\ bridge.tcp[t].far = "up"
    /\ bridge.frames_left > 0
    /\ \E len \in {0, 2} :
         LET n == BridgeFrames - bridge.frames_left + 1
             hdr == [part |-> "hdr", n |-> n, len |-> len, of |-> t]
             pay == [part |-> "pay", n |-> n, len |-> len, of |-> t]
         IN bridge' = [bridge EXCEPT
                          !.frames_left = @ - 1,
                          !.tcp[t].rx = IF len = 0 THEN Append(@, hdr)
                                        ELSE @ \o <<hdr, pay>>]
    /\ UNCHANGED broker

\* the broker closes connection t
BrokerClose(t) ==
    /\ bridge.tcp[t].state = "open"
    /\ bridge.tcp[t].far = "up"
    /\ bridge' = [bridge EXCEPT !.tcp[t].far = "gone"]
    /\ UNCHANGED broker

BridgeInit ==
    /\ clients = << >>
    /\ client_info =
           [c \in Conns |->
               [authenticated |-> FALSE, device_id |-> None, is_admin |-> FALSE]]
    /\ device_connections = << >>
    /\ admin_clients = {}
    /\ sock = [c \in Conns |-> "open"]
    /\ peer = [c \in Conns |-> "up"]
    /\ wire = [c \in Conns |-> << >>]
    /\ stk = [c \in Conns |-> << >>]
    /\ frames_left = 0
    /\ breaks_left = 0
    /\ probe = NoProbe
    /\ server = NoServer
    /\ bridge = [NoBridge EXCEPT !.msgs_left = BridgeMsgs,
                                 !.frames_left = BridgeFrames]

BridgeNext ==
    \E w \in Webs :
        \/ HandleWebsocket(w)
        \/ ForwardToTcp(w)
        \/ WsClosed(w)
        \/ DisconnectFromTcpServer(w)
        \/ TcpListenerLoop(w)
        \/ TcpListenerHeader(w)
        \/ TcpListenerPayload(w)
        \/ TcpListenerLost(w)
        \/ BrokerSend(w)
        \/ BrokerClose(w)

BridgeSpec == BridgeInit /\ [][BridgeNext]_vars

\* The same, when the event loop of the handlers and every listener thread
\* keep running; the WebSocket clients and the broker owe nothing.
BridgeLive ==
    /\ BridgeSpec
    /\ \A w \in Webs :
           /\ WF_vars(DisconnectFromTcpServer(w))
           /\ WF_vars(TcpListenerLoop(w))
           /\ WF_vars(TcpListenerHeader(w))
           /\ WF_vars(TcpListenerPayload(w))
           /\ WF_vars(TcpListenerLost(w))

(* ------------------------------ claims -------------------------------- *)
\* C1: on every connection the bytes of an outbound frame are contiguous: a
\* header that announces a payload is followed at once by the payload of the
\* same frame, written by the same thread, and every payload follows its own
\* header.  (A header that is the last chunk written so far is a frame still
\* being written.)
C1_FramesContiguous ==
    \A c \in Conns : \A k \in 1..Len(wire[c]) :
        LET chunk == wire[c][k] IN
        /\ (chunk.part = "hdr" /\ PayloadLen(chunk.m) > 0 /\ k < Len(wire[c]))
               => wire[c][k + 1] = [chunk EXCEPT !.part = "pay"]
        /\ chunk.part = "pay"
               => k > 1 /\ wire[c][k - 1] = [chunk EXCEPT !.part = "hdr"]

\* C2: each connection identifier occurs in at most one device group, at
\* most once, and only if the connection is authenticated as a non-admin
\* device.
C2_OneGroupOnce ==
    \A c \in Conns :
        /\ Membership(device_connections, c) <= 1
        /\ Membership(device_connections, c) >= 1
               => client_info[c].authenticated /\ ~client_info[c].is_admin

\* C3: the admin set is disjoint from every device group.
C3_AdminDisjoint ==
    \A c \in admin_clients : Membership(device_connections, c) = 0

\* C4: every key of the device-group mapping maps to a non-empty list.  The
\* list a cleanup has just emptied, and is about to test at line 405 or to
\* delete at line 406, is not counted.
C4_NoEmptyGroup ==
    \A k \in 1..Len(device_connections) :
        device_connections[k].conns = << >>
            => \E t \in Conns :
                   /\ stk[t] # << >>
                   /\ Top(stk[t]).proc = "cleanup"
                   /\ Top(stk[t]).pc \in {"check", "del"}
                   /\ Top(stk[t]).d = device_connections[k].key

\* C5: cleanup is idempotent.  A call of cleanup_client_connection for a
\* connection that an earlier call has already cleaned up and closed changes
\* neither the connection table nor the device groups nor the admin set,
\* and goes straight to closing the socket, past the deviceDisconnected
\* event.
C5_SecondCleanupIsNoOp ==
    [][\A t \in Conns :
          (/\ At(t, "cleanup", "begin")
           /\ sock[Top(stk[t]).x] = "closed"
           /\ stk'[t] # stk[t])
          => /\ registry' = registry
             /\ stk'[t] # << >>
             /\ Top(stk'[t]).proc = "cleanup"
             /\ Top(stk'[t]).pc = "close"]_vars

\* C5, its case: a second cleanup has passed its test for a connection that
\* logged in twice, so that the first cleanup left it in its group.
C5_SecondCleanupRan ==
    \E t \in Conns :
        /\ At(t, "cleanup", "close")
        /\ sock[Top(stk[t]).x] = "closed"
        /\ ~InSeq(Top(stk[t]).x, clients)
        /\ Membership(device_connections, Top(stk[t]).x) >= 1

\* C6: a connection that has not authenticated and sends a frame other than
\* LOGIN is closed: its session does not go back to reading frames.
C6_UnauthNonLoginCloses ==
    \A c \in Conns :
        (/\ stk[c] # << >>
         /\ stk[c][1].fr # NoFrame
         /\ stk[c][1].fr.type # HYPER_TCP_CMD_LOGIN
         /\ ~stk[c][1].was_auth)
        => ~At(c, "hc", "loop")

\* C7: a JSON_MESSAGE or BROADCAST read from a connection that is not
\* authenticated is never routed: no frame caused by it is written or about
\* to be written to any connection, and the sender is in no device group
\* and not in the admin set.
C7_UnauthNeverRouted ==
    \A c \in Conns :
        (/\ stk[c] # << >>
         /\ stk[c][1].fr.type \in
                {HYPER_TCP_CMD_JSON_MESSAGE, HYPER_TCP_CMD_BROADCAST}
         /\ ~stk[c][1].was_auth)
        => LET cause == <<c, stk[c][1].fr.msg_id>> IN
           /\ \A x \in Conns : \A k \in 1..Len(wire[x]) :
                  wire[x][k].m.cause # cause
           /\ \A t \in Conns : \A k \in 1..Len(stk[t]) :
                  stk[t][k].m.cause # cause
           /\ Membership(device_connections, c) = 0
           /\ c \notin admin_clients

\* C7, its case: the session of such a sender is over while another
\* connection is authenticated and registered.
C7_UnauthSenderClosed ==
    \E c \in Conns : \E x \in Conns \ {c} :
        /\ stk[c] # << >>
        /\ stk[c][1].fr.type \in
               {HYPER_TCP_CMD_JSON_MESSAGE, HYPER_TCP_CMD_BROADCAST}
        /\ ~stk[c][1].was_auth
        /\ stk[c][1].pc = "done"
        /\ InSeq(x, clients)
        /\ client_info[x].authenticated

\* C8: the welcome of a LOGIN, and the deviceStatus events of an admin's
\* LOGIN, are written to the connection only after the RESPONSE with status
\* SUCCESS and the LOGIN's MsgId.
C8_ResponseFirst ==
    \A c \in Conns : \A k \in 1..Len(wire[c]) :
        LET m == wire[c][k].m IN
        (/\ m.cause[1] = c
         /\ m.kind = "welcome" \/ (m.kind = "event" /\ m.ev = "deviceStatus"))
        => \E j \in 1..(k - 1) :
               /\ wire[c][j].part = "pay"
               /\ wire[c][j].m =
                      Response(c, m.cause[2], HYPER_TCP_STATUS_SUCCESS)

\* C9: when the credential check rejects a LOGIN, the only frame the server
\* writes because of it is the RESPONSE with the status byte INVALID_TOKEN
\* and the LOGIN's MsgId, on the sender's connection; there is no welcome
\* and no deviceConnected event; the connection is added to no device group
\* and not to the admin set; the session reads no further frame, and once
\* its cleanup has returned the socket is closed and a peer that is still
\* there has been sent the header and the status byte of the RESPONSE.
C9_RejectedLogin ==
    \A c \in Conns :
        (/\ stk[c] # << >>
         /\ stk[c][1].fr.type = HYPER_TCP_CMD_LOGIN
         /\ ~Authenticate(IF stk[c][1].fr.json
                          THEN ClassifyJson(stk[c][1].fr.token,
                                            stk[c][1].fr.device_id)
                          ELSE ClassifyLegacy(stk[c][1].fr.token),
                          stk[c][1].fr.token))
        => LET hc == stk[c][1]
               cause == <<c, hc.fr.msg_id>>
               reply == Response(c, hc.fr.msg_id,
                                 HYPER_TCP_STATUS_INVALID_TOKEN)
           IN
           /\ hc.pc \in {"finally", "closing", "done", "dead"}
           /\ \A x \in Conns : \A k \in 1..Len(wire[x]) :
                  wire[x][k].m.cause = cause
                      => x = c /\ wire[x][k].m = reply
           /\ \A t \in Conns : \A k \in 1..Len(stk[t]) :
                  stk[t][k].m.cause = cause
                      => stk[t][k].x = c /\ stk[t][k].m = reply
           /\ Membership(device_connections, c) <= hc.g0
           /\ c \in admin_clients => hc.a0
           /\ hc.pc = "done"
                  => /\ sock[c] = "closed"
                     /\ peer[c] = "up"
                            => \E k \in 2..Len(wire[c]) :
                                   /\ wire[c][k] =
                                          [part |-> "pay", m |-> reply, by |-> c]
                                   /\ \E j \in 1..(k - 1) :
                                          wire[c][j] =
                                            [part |-> "hdr", m |-> reply, by |-> c]

\* C9, its case: a rejected LOGIN whose session has ended, with the reply
\* the last thing written to the connection.
C9_RejectedAndClosed ==
    \E c \in Conns :
        /\ stk[c] # << >>
        /\ stk[c][1].fr.type = HYPER_TCP_CMD_LOGIN
        /\ stk[c][1].pc = "done"
        /\ ~client_info[c].authenticated
        /\ wire[c] # << >>
        /\ wire[c][Len(wire[c])].part = "pay"
        /\ wire[c][Len(wire[c])].m.st = HYPER_TCP_STATUS_INVALID_TOKEN

\* C10: the outcome of the credential check equals the admission rule: a
\* login is classified admin iff its device_id starts with "admin_" or its
\* token is the admin token; an admin login is accepted iff its token is the
\* admin token, a device login iff its token is the device token; so an
\* admin-classified login with the device token is rejected; the status is
\* SUCCESS for an accepted login and INVALID_TOKEN for a rejected one.
C10_AdmissionRule ==
    probe.phase = "replied" =>
        LET admin_id == probe.json /\ probe.device_id \in {"admin_1", "admin_"}
            admin == admin_id \/ probe.token = "admin_token"
            accepted == IF admin THEN probe.token = "admin_token"
                        ELSE probe.token = "your_auth_token_here"
        IN
        /\ probe.is_admin = admin
        /\ probe.authenticated = accepted
        /\ (admin /\ probe.token = "your_auth_token_here")
               => ~probe.authenticated
        /\ probe.status = IF accepted THEN HYPER_TCP_STATUS_SUCCESS
                          ELSE HYPER_TCP_STATUS_INVALID_TOKEN

\* C10, its case: the device token with an "admin_" device id, rejected.
C10_AdminIdDeviceToken ==
    /\ probe.phase = "replied"
    /\ probe.json
    /\ probe.device_id = "admin_1"
    /\ probe.token = "your_auth_token_here"
    /\ probe.is_admin
    /\ ~probe.authenticated
    /\ probe.status = HYPER_TCP_STATUS_INVALID_TOKEN

(* ----------------------- delivery, as observed ------------------------ *)
\* the frames of one kind and one cause whose payload reached connection x
Delivered(x, kind, cause) ==
    Cardinality({k \in 1..Len(wire[x]) :
                    /\ wire[x][k].part = "pay"
                    /\ wire[x][k].m.kind = kind
                    /\ wire[x][k].m.cause = cause})

\* the RESPONSE with PayloadLen 0 for frame msg_id reached connection c
Acked(c, msg_id) ==
    \E k \in 1..Len(wire[c]) :
        /\ wire[c][k].part = "hdr"
        /\ wire[c][k].m.type = HYPER_TCP_CMD_RESPONSE
        /\ wire[c][k].m.msg_id = msg_id
        /\ wire[c][k].m.kind = "ack"

\* handle_client is back at its recv with nothing left to write
Idle(c) == Len(stk[c]) = 1 /\ stk[c][1].pc = "loop"

\* no peer has gone away and no write has failed
AllUp ==
    /\ \A x \in Conns : sock[x] = "open" /\ peer[x] = "up"
    /\ \A t \in Conns :
           stk[t] = << >>
           \/ stk[t][1].pc \notin {"finally", "closing", "done", "dead"}

\* C11: once an authenticated connection's JSON_MESSAGE to a device with a
\* group has been handled, and no peer went away, each connection that was
\* in the group has received exactly one JSON_MESSAGE frame with the
\* envelope, every other connection none, and the sender has its RESPONSE
\* with PayloadLen 0 and the frame's MsgId.
C11_OncePerMember ==
    \A c \in Conns :
        (/\ Idle(c)
         /\ AllUp
         /\ stk[c][1].fr.type = HYPER_TCP_CMD_JSON_MESSAGE
         /\ stk[c][1].fr.obj
         /\ stk[c][1].was_auth
         /\ stk[c][1].fr.target \notin {"broadcast", "server"}
         /\ stk[c][1].todo # << >>)
        => LET cause == <<c, stk[c][1].fr.msg_id>> IN
           /\ \A x \in Conns :
                  Delivered(x, "routed", cause) =
                      IF InSeq(x, stk[c][1].todo) THEN 1 ELSE 0
           /\ Acked(c, stk[c][1].fr.msg_id)

\* C12: a BROADCAST frame, or a JSON_MESSAGE addressed to "broadcast", of an
\* authenticated connection reaches no connection that is not authenticated
\* and no connection twice; once it has been handled with every peer up,
\* each connection that was in the table and authenticated when the
\* recipients were taken, and still is, has received it exactly once:
\* devices, admins and the sender itself.
C12_BroadcastReachesAll ==
    \A c \in Conns :
        (/\ stk[c] # << >>
         /\ \/ stk[c][1].fr.type = HYPER_TCP_CMD_BROADCAST
            \/ /\ stk[c][1].fr.type = HYPER_TCP_CMD_JSON_MESSAGE
               /\ stk[c][1].fr.target = "broadcast"
         /\ stk[c][1].fr.obj
         /\ stk[c][1].was_auth)
        => LET cause == <<c, stk[c][1].fr.msg_id>> IN
           \A x \in Conns :
              /\ Delivered(x, "routed", cause) <= 1
              /\ (\E k \in 1..Len(wire[x]) :
                      wire[x][k].m.kind = "routed" /\ wire[x][k].m.cause = cause)
                  => client_info[x].authenticated
              /\ (/\ Idle(c)
                  /\ AllUp
                  /\ InSeq(x, stk[c][1].todo)
                  /\ InSeq(x, clients)
                  /\ client_info[x].authenticated)
                 => Delivered(x, "routed", cause) = 1

\* C12, its case: a broadcast has been handled and both its sender and an
\* admin on another connection hold the frame, while the sender is a device.
C12_SenderAndAdminReached ==
    \E c \in Conns : \E x \in Conns \ {c} :
        /\ Idle(c)
        /\ stk[c][1].fr.type = HYPER_TCP_CMD_BROADCAST
        /\ stk[c][1].was_auth
        /\ ~client_info[c].is_admin
        /\ client_info[x].is_admin
        /\ Delivered(c, "routed", <<c, stk[c][1].fr.msg_id>>) = 1
        /\ Delivered(x, "routed", <<c, stk[c][1].fr.msg_id>>) = 1

\* C13: a write failure to a recipient tears down that recipient only: the
\* session of a connection whose own peer is up, none of whose writes or
\* reads failed, and which sent its JSON_MESSAGE authenticated, is never
\* ended, also while the recipient's own session is cleaning the recipient
\* up.
C13_SenderSurvives ==
    \A c \in Conns :
        (/\ stk[c] # << >>
         /\ peer[c] = "up"
         /\ sock[c] = "open"
         /\ stk[c][1].fr.type = HYPER_TCP_CMD_JSON_MESSAGE => stk[c][1].was_auth)
        => stk[c][1].pc \notin {"finally", "closing", "done", "dead"}

\* An authenticated connection's JSON_MESSAGE for "server", or for a target
\* that was no key of the device-group mapping when route_message looked it
\* up.  The first form holds before the lookup, the second after it.
NoTargetAhead(c) ==
    /\ stk[c] # << >>
    /\ stk[c][1].fr.type = HYPER_TCP_CMD_JSON_MESSAGE
    /\ stk[c][1].fr.obj
    /\ stk[c][1].was_auth
    /\ stk[c][1].fr.target # "broadcast"
    /\ stk[c][1].pc = "route"
    /\ \/ stk[c][1].fr.target = "server"
       \/ ~HasKey(device_connections, stk[c][1].fr.target)

NoTargetDone(c) ==
    /\ stk[c] # << >>
    /\ stk[c][1].fr.type = HYPER_TCP_CMD_JSON_MESSAGE
    /\ stk[c][1].fr.obj
    /\ stk[c][1].was_auth
    /\ stk[c][1].fr.target # "broadcast"
    /\ stk[c][1].pc \in {"routed", "ack", "loop"}
    /\ stk[c][1].todo = << >>

\* what such a frame has caused so far: frames to its sender only, none of
\* them a delivery or a status, and the ack once the handler is back at recv
NoTargetEffect(c) ==
    LET cause == <<c, stk[c][1].fr.msg_id>> IN
    /\ \A x \in Conns : \A k \in 1..Len(wire[x]) :
           wire[x][k].m.cause = cause
           => x = c /\ wire[x][k].m.kind \in {"pong", "ack"}
    /\ \A t \in Conns : \A k \in 2..Len(stk[t]) :
           stk[t][k].m.cause = cause
           => /\ t = c
              /\ stk[t][k].proc = "send"
              /\ stk[t][k].x = c
              /\ stk[t][k].m.kind \in {"pong", "ack"}
    /\ Idle(c) => Acked(c, stk[c][1].fr.msg_id)

\* C14: a JSON_MESSAGE of an authenticated connection whose targetId is
\* "server", or neither "broadcast" nor a key of the device-group mapping,
\* makes the server write to no other connection, no step of its handling
\* changes the registry, and its sender gets the RESPONSE with PayloadLen 0
\* and the frame's MsgId, and no status.
C14_NoTargetNoEffect ==
    [][\A c \in Conns :
          /\ ((NoTargetAhead(c) \/ (NoTargetDone(c) /\ ~Idle(c)))
               /\ stk'[c] # stk[c])
              => registry' = registry
          /\ NoTargetDone(c)' => NoTargetEffect(c)']_vars

\* C14, its case: such a frame, for a target without a group, has been
\* handled and acknowledged while another connection is registered.
C14_UnknownTargetAcked ==
    \E c \in Conns : \E x \in Conns \ {c} :
        /\ NoTargetDone(c)
        /\ Idle(c)
        /\ stk[c][1].fr.target = "nobody"
        /\ Acked(c, stk[c][1].fr.msg_id)
        /\ InSeq(x, clients)
        /\ client_info[x].authenticated

\* C15: every envelope the server delivers, or is about to deliver, for a
\* connection's JSON_MESSAGE or BROADCAST carries in from the device id of
\* that connection's LOGIN (the connection id after a legacy LOGIN), and
\* never the from value the sender wrote into the envelope.
C15_FromIsLoginId ==
    /\ \A x \in Conns : \A k \in 1..Len(wire[x]) :
           wire[x][k].m.kind = "routed" => wire[x][k].m.from # FORGED
    /\ \A c \in Conns :
           (/\ stk[c] # << >>
            /\ stk[c][1].fr.type \in
                   {HYPER_TCP_CMD_JSON_MESSAGE, HYPER_TCP_CMD_BROADCAST})
           => LET cause == <<c, stk[c][1].fr.msg_id>>
                  id == IF stk[c][1].path = "legacy" THEN c ELSE stk[c][1].d
              IN
              /\ \A x \in Conns : \A k \in 1..Len(wire[x]) :
                     (wire[x][k].m.kind = "routed"
                      /\ wire[x][k].m.cause = cause)
                     => wire[x][k].m.from = id
              /\ \A t \in Conns : \A k \in 1..Len(stk[t]) :
                     (stk[t][k].m.kind = "routed"
                      /\ stk[t][k].m.cause = cause)
                     => stk[t][k].m.from = id

\* C15, its case: a connection that logged in on the legacy path holds the
\* envelope of its own broadcast, stamped with its connection id.
C15_LegacySenderStamped ==
    \E c \in Conns : \E k \in 1..Len(wire[c]) :
        /\ stk[c] # << >>
        /\ stk[c][1].path = "legacy"
        /\ stk[c][1].fr.type \in
               {HYPER_TCP_CMD_JSON_MESSAGE, HYPER_TCP_CMD_BROADCAST}
        /\ wire[c][k].part = "pay"
        /\ wire[c][k].m.kind = "routed"
        /\ wire[c][k].m.cause = <<c, stk[c][1].fr.msg_id>>
        /\ wire[c][k].m.from = c

\* C16: every frame the server has written is either a RESPONSE, written to
\* the connection whose frame it answers and carrying the MsgId of that
\* frame, one of the frames that connection has sent; or a frame of the
\* server's own (welcome, delivery, pong, admin event), of type JSON_MESSAGE
\* with MsgId 0.
C16_RepliesEchoMsgId ==
    \A x \in Conns : \A k \in 1..Len(wire[x]) :
        LET m == wire[x][k].m IN
        IF m.type = HYPER_TCP_CMD_RESPONSE
        THEN /\ m.kind \in {"status", "ack"}
             /\ m.cause[1] = x
             /\ m.msg_id = m.cause[2]
             /\ stk[x] # << >>
             /\ m.msg_id \in 1..stk[x][1].n
        ELSE /\ m.kind \in {"welcome", "routed", "pong", "event"}
             /\ m.type = HYPER_TCP_CMD_JSON_MESSAGE
             /\ m.msg_id = 0

\* C16, its case: a connection holds a welcome, with MsgId 0, and the
\* RESPONSE to the second frame it sent.
C16_SecondFrameAnswered ==
    \E c \in Conns : \E j, k \in 1..Len(wire[c]) :
        /\ wire[c][j].m.kind = "welcome"
        /\ wire[c][j].m.msg_id = 0
        /\ wire[c][k].m.type = HYPER_TCP_CMD_RESPONSE
        /\ wire[c][k].m.msg_id = 2
        /\ stk[c][1].fr.msg_id = 2

\* the last frame read from c has a type the server does not know, and c
\* was authenticated when it was read
UnknownOnAuth(c) ==
    /\ stk[c] # << >>
    /\ stk[c][1].fr.type \notin
           {-1, HYPER_TCP_CMD_RESPONSE, HYPER_TCP_CMD_PING, HYPER_TCP_CMD_LOGIN,
            HYPER_TCP_CMD_JSON_MESSAGE, HYPER_TCP_CMD_BROADCAST}
    /\ stk[c][1].was_auth

\* C17: a frame of unknown type read from an authenticated connection is
\* answered on that connection with a RESPONSE of the frame's MsgId whose
\* one payload byte is 2, and with nothing else; no step of its handling
\* changes the registry; and while the connection has not failed it stays in
\* the read loop, authenticated, with the memberships it had.
C17_UnknownTypeAnswered ==
    [][\A c \in Conns :
          UnknownOnAuth(c)' =>
            LET hc == stk'[c][1]
                cause == <<c, hc.fr.msg_id>>
                reply(m) == /\ m.type = HYPER_TCP_CMD_RESPONSE
                            /\ m.msg_id = hc.fr.msg_id
                            /\ m.kind = "status"
                            /\ m.st = 2
            IN
            /\ (stk'[c] # stk[c] /\ hc.pc = "loop") => registry' = registry
            /\ \A x \in Conns : \A k \in 1..Len(wire'[x]) :
                   wire'[x][k].m.cause = cause
                   => x = c /\ reply(wire'[x][k].m)
            /\ \A t \in Conns : \A k \in 1..Len(stk'[t]) :
                   stk'[t][k].m.cause = cause
                   => t = c /\ stk'[t][k].x = c /\ reply(stk'[t][k].m)
            /\ (sock'[c] = "open" /\ peer'[c] = "up")
               => /\ hc.pc = "loop"
                  /\ client_info'[c].authenticated
                  /\ InSeq(c, clients')
                  /\ Membership(device_connections', c) = hc.g0
                  /\ (c \in admin_clients') = hc.a0
                  /\ Idle(c)' => \E k \in 1..Len(wire'[c]) :
                                    /\ wire'[c][k].part = "pay"
                                    /\ wire'[c][k].m.cause = cause]_vars

\* C17, its case: an authenticated device sent a frame of type 99 and has
\* been answered.
C17_Type99Answered ==
    \E c \in Conns : \E k \in 1..Len(wire[c]) :
        /\ UnknownOnAuth(c)
        /\ Idle(c)
        /\ stk[c][1].fr.type = 99
        /\ Membership(device_connections, c) = 1
        /\ wire[c][k].part = "pay"
        /\ wire[c][k].m.st = 2
        /\ wire[c][k].m.cause = <<c, stk[c][1].fr.msg_id>>

\* C18: a JSON_MESSAGE or BROADCAST of an authenticated connection whose
\* payload is not a JSON envelope (not JSON at all, or JSON that is not an
\* object) is dropped: the server writes nothing for it, neither a delivery
\* nor a RESPONSE, and the connection, unless it failed, stays in the read
\* loop.
C18_BadPayloadDropped ==
    \A c \in Conns :
        (/\ stk[c] # << >>
         /\ stk[c][1].fr.type \in
                {HYPER_TCP_CMD_JSON_MESSAGE, HYPER_TCP_CMD_BROADCAST}
         /\ stk[c][1].was_auth
         /\ ~(stk[c][1].fr.json /\ stk[c][1].fr.obj))
        => LET cause == <<c, stk[c][1].fr.msg_id>> IN
           /\ \A x \in Conns : \A k \in 1..Len(wire[x]) :
                  wire[x][k].m.cause # cause
           /\ \A t \in Conns : \A k \in 1..Len(stk[t]) :
                  stk[t][k].m.cause # cause
           /\ (sock[c] = "open" /\ peer[c] = "up") => Idle(c)

\* C19: the pong the server writes for a JSON_MESSAGE whose payload.command
\* is "ping" goes to the sender as a JSON_MESSAGE with MsgId 0, and its
\* envelope has type "pong", command "pong", a timestamp, and the other
\* fields of the ping payload as the client sent them.
C19_PongEnvelope ==
    \A x \in Conns : \A k \in 1..Len(wire[x]) :
        LET m == wire[x][k].m IN
        m.kind = "pong"
        => /\ x = m.cause[1]
           /\ m.type = HYPER_TCP_CMD_JSON_MESSAGE
           /\ m.msg_id = 0
           /\ m.body.type = "pong"
           /\ m.body.command = "pong"
           /\ "timestamp" \in DOMAIN m.body
           /\ \A f \in DOMAIN PingPayload \ {"command"} :
                  f \in DOMAIN m.body /\ m.body[f] = PingPayload[f]

\* the deviceConnected events of a LOGIN whose payload reached connection x
Connected(x, cause) ==
    Cardinality({k \in 1..Len(wire[x]) :
                    /\ wire[x][k].part = "pay"
                    /\ wire[x][k].m.kind = "event"
                    /\ wire[x][k].m.ev = "deviceConnected"
                    /\ wire[x][k].m.cause = cause})

\* C20: the deviceConnected events of a LOGIN exist only for an accepted
\* device LOGIN, carry the device id and the client id of its connection,
\* and are written only once the connection is in its device group, and
\* only to connections that were in the admin set when it was copied, at
\* most once each; when the LOGIN has been handled with every peer up, each
\* of those admins that is still registered has received exactly one.  An
\* admin's LOGIN has none.
C20_DeviceConnectedOnce ==
    \A c \in Conns :
        (stk[c] # << >> /\ stk[c][1].fr.type = HYPER_TCP_CMD_LOGIN)
        => LET hc == stk[c][1]
               cause == <<c, hc.fr.msg_id>>
               mine(m) == /\ m.kind = "event"
                          /\ m.ev = "deviceConnected"
                          /\ m.cause = cause
               sound(m) == /\ m.type = HYPER_TCP_CMD_JSON_MESSAGE
                           /\ m.msg_id = 0
                           /\ m.dev = hc.d
                           /\ m.cid = c
                           /\ client_info[c].authenticated
                           /\ ~client_info[c].is_admin
                           /\ hc.pc \notin {"lg_register", "dev_count",
                                             "dev_notify"}
                           /\ AllUp => InGroup(device_connections, hc.d, c)
           IN
           /\ \A t \in Conns : \A k \in 1..Len(stk[t]) :
                  mine(stk[t][k].m) => t = c /\ sound(stk[t][k].m)
           /\ \A x \in Conns :
                  /\ \A k \in 1..Len(wire[x]) :
                         mine(wire[x][k].m)
                         => sound(wire[x][k].m) /\ InSeq(x, hc.todo)
                  /\ Connected(x, cause) <= 1
                  /\ (/\ Idle(c)
                      /\ AllUp
                      /\ client_info[c].authenticated
                      /\ ~client_info[c].is_admin
                      /\ x \in admin_clients
                      /\ InSeq(x, hc.todo)
                      /\ InSeq(x, clients)
                      /\ client_info[x].authenticated)
                     => Connected(x, cause) = 1

\* C20, its case: a device LOGIN has been handled while an admin was
\* connected on another connection, and that admin holds its one event.
C20_AdminToldOnce ==
    \E c \in Conns : \E x \in Conns \ {c} :
        /\ Idle(c)
        /\ stk[c][1].fr.type = HYPER_TCP_CMD_LOGIN
        /\ client_info[c].authenticated
        /\ ~client_info[c].is_admin
        /\ client_info[x].is_admin
        /\ x \in admin_clients
        /\ Connected(x, <<c, stk[c][1].fr.msg_id>>) = 1

\* C29: a connection whose device LOGIN has been accepted and handled, and
\* which is still in the connection table, is in the group of its device
\* id, whatever the other sessions did meanwhile.
C29_RegisteredInGroup ==
    \A c \in Conns :
        (/\ Idle(c)
         /\ stk[c][1].fr.type = HYPER_TCP_CMD_LOGIN
         /\ InSeq(c, clients)
         /\ client_info[c].authenticated
         /\ ~client_info[c].is_admin)
        => InGroup(device_connections, client_info[c].device_id, c)

\* C30: once a session is over and its cleanup has returned, its connection
\* is in no device group, not in the admin set and not in the connection
\* table.
C30_NothingLeftBehind ==
    \A c \in Conns :
        (stk[c] # << >> /\ stk[c][1].pc = "done")
        => /\ ~InSeq(c, clients)
           /\ Membership(device_connections, c) = 0
           /\ c \notin admin_clients

\* C25: a connection whose socket the server has closed is in no device
\* group, not in the admin set and not in the connection table, and no
\* thread is about to write a delivery or an admin event to it.
C25_RemovedBeforeClose ==
    \A x \in Conns :
        sock[x] = "closed"
        => /\ ~InSeq(x, clients)
           /\ Membership(device_connections, x) = 0
           /\ x \notin admin_clients
           /\ \A t \in Conns \ {x} :
                  ~(/\ stk[t] # << >>
                    /\ Top(stk[t]).proc = "send"
                    /\ Top(stk[t]).x = x
                    /\ Top(stk[t]).m.kind \in {"routed", "event"})


\* C23: on the wire of an admin that has sent one LOGIN, every deviceStatus
\* event of its snapshot is written before any deviceConnected event, and
\* no connection whose first LOGIN the admin was told of as deviceConnected
\* is also listed in the snapshot.
C23_SnapshotBeforeLive ==
    \A x \in Conns :
        (stk[x] # << >> /\ stk[x][1].n = 1)
        => \A k1 \in 1..Len(wire[x]) : \A k2 \in 1..Len(wire[x]) :
               LET live == wire[x][k1].m
                   listed == wire[x][k2].m
               IN (/\ live.kind = "event"
                   /\ live.ev = "deviceConnected"
                   /\ live.cause[2] = 1
                   /\ listed.kind = "event"
                   /\ listed.ev = "deviceStatus"
                   /\ listed.cause = <<x, 1>>)
                  => k2 < k1 /\ listed.cid # live.cid


\* the deviceDisconnected events for connection c whose payload reached x
Disconnected(x, c) ==
    Cardinality({k \in 1..Len(wire[x]) :
                    /\ wire[x][k].part = "pay"
                    /\ wire[x][k].m.kind = "event"
                    /\ wire[x][k].m.ev = "deviceDisconnected"
                    /\ wire[x][k].m.cid = c})

\* the connection that shares device A with c from the start
Sharing(c) == CHOOSE o \in Sharers : o # c

\* an admin that can still be written to
Listening(x) ==
    /\ InSeq(x, clients)
    /\ client_info[x].authenticated
    /\ sock[x] = "open"
    /\ peer[x] = "up"

\* C21: two connections share device A, each after one LOGIN.  Nobody is
\* sent more than one deviceDisconnected for either of them, and each such
\* event names device A.  While one of the two is still registered, group A
\* exists and holds it once; when the other has gone, group A does not hold
\* the one that has gone, and once its cleanup has returned every admin it
\* addressed that is still listening has received exactly one
\* deviceDisconnected for it.  Group A is absent only when both have gone.
C21_GroupOutlivesFirst ==
    \A c \in Sharers :
        LET o == Sharing(c)
            once(t) == stk[t] # << >> /\ stk[t][1].n = 1
        IN (once(c) /\ once(o))
           => /\ \A x \in Conns :
                     /\ Disconnected(x, c) <= 1
                     /\ \A k \in 1..Len(wire[x]) :
                            (/\ wire[x][k].m.ev = "deviceDisconnected"
                             /\ wire[x][k].m.cid = c)
                            => /\ wire[x][k].m.dev = "A"
                               /\ ~InSeq(c, clients)
              /\ InSeq(o, clients)
                 => /\ HasKey(device_connections, "A")
                    /\ Membership(device_connections, o) = 1
                    /\ InGroup(device_connections, "A", o)
                    /\ ~InSeq(c, clients)
                       => ~InGroup(device_connections, "A", c)
                    /\ stk[c][1].pc = "done"
                       => \A x \in Conns :
                              (InSeq(x, stk[c][1].told) /\ Listening(x))
                              => Disconnected(x, c) = 1
              /\ ~HasKey(device_connections, "A")
                 => ~InSeq(c, clients) /\ ~InSeq(o, clients)

\* C21, its case: one of the two has gone and its cleanup has returned, the
\* other is still registered and alone in group A, and the admin has its one
\* deviceDisconnected event.
C21_FirstGoneSecondStays ==
    \E c \in Sharers : \E x \in Conns \ Sharers :
        /\ stk[c][1].n = 1
        /\ stk[Sharing(c)][1].n = 1
        /\ stk[c][1].pc = "done"
        /\ InSeq(Sharing(c), clients)
        /\ Group(device_connections, "A") = <<Sharing(c)>>
        /\ x \in admin_clients
        /\ Listening(x)
        /\ Disconnected(x, c) = 1


\* the deviceStatus events for connection c whose payload reached x
Status(x, c) ==
    Cardinality({k \in 1..Len(wire[x]) :
                    /\ wire[x][k].part = "pay"
                    /\ wire[x][k].m.kind = "event"
                    /\ wire[x][k].m.ev = "deviceStatus"
                    /\ wire[x][k].m.cid = c})

\* C22: an admin whose one LOGIN has been handled, and that is still
\* listening, holds no deviceStatus for an admin, at most one for any
\* connection, and exactly one for each connection that was in group A
\* before the admin connected and is registered still.
C22_SnapshotComplete ==
    \A x \in Conns :
        (/\ Idle(x)
         /\ stk[x][1].n = 1
         /\ stk[x][1].fr.type = HYPER_TCP_CMD_LOGIN
         /\ client_info[x].is_admin
         /\ Listening(x))
        => \A c \in Conns :
               /\ Status(x, c) <= 1
               /\ client_info[c].is_admin => Status(x, c) = 0
               /\ (c \in Sharers /\ stk[c][1].n = 1 /\ InSeq(c, clients))
                  => Status(x, c) = 1


\* C24: on every connection, the bytes of two envelopes that one sender
\* addressed to the same device lie in the order in which the sender's
\* session read the two frames: every chunk of the earlier one comes
\* before every chunk of the later one.
C24_DirectInOrder ==
    \A x \in Conns :
        \A k1 \in 1..Len(wire[x]) : \A k2 \in 1..Len(wire[x]) :
            LET a == wire[x][k1].m
                b == wire[x][k2].m
            IN (/\ a.kind = "routed"
                /\ b.kind = "routed"
                /\ a.tgt = b.tgt
                /\ a.cause[1] = b.cause[1]
                /\ a.cause[2] < b.cause[2])
               => k1 < k2

\* C24, its case: a connection other than the sender holds both envelopes
\* of one sender, header and payload each.
C24_BothReceived ==
    \E c \in Conns : \E x \in Conns \ {c} :
        \E n1 \in 1..OrderFrames : \E n2 \in 1..OrderFrames :
            /\ n1 < n2
            /\ Delivered(x, "routed", <<c, n1>>) = 1
            /\ Delivered(x, "routed", <<c, n2>>) = 1


\* C26: each WebSocket has its own TCP connection.  The messages written
\* to the socket opened for w come from w; what is read from that socket
\* is submitted for w; the socket is closed only when w is closed.
C26_PairedConnections ==
    \A w \in Webs :
        /\ \A k \in 1..Len(bridge.tcp[w].tx) : bridge.tcp[w].tx[k].from = w
        /\ \A k \in 1..Len(bridge.loop[w]) :
               bridge.loop[w][k].op = "send"
               => bridge.loop[w][k].ws = bridge.loop[w][k].chunk.of
        /\ bridge.tcp[w].state = "closed" => bridge.ws[w].state = "closed"

\* C27: a chunk read from the TCP side and submitted for a WebSocket is
\* eventually sent on it, unless the WebSocket is closed.
C27_ReadIsForwarded ==
    \A w \in Webs : \A k \in 1..(2 * BridgeFrames) :
        (/\ Len(bridge.loop[w]) >= k
         /\ bridge.loop[w][k].op = "send")
        ~> (/\ Len(bridge.loop[w]) >= k
            /\ \/ bridge.loop[w][k].ran
               \/ bridge.ws[bridge.loop[w][k].ws].state = "closed")

\* C28: when a WebSocket is closed its TCP socket is closed in the end, and
\* when the broker has closed the TCP connection of an open WebSocket the
\* WebSocket is closed in the end, with code 1011 unless its client closed
\* it first.
C28_LossTearsDownOther ==
    \A w \in Webs :
        /\ (bridge.ws[w].state = "closed" /\ bridge.tcp[w].state = "open")
           ~> (bridge.tcp[w].state = "closed")
        /\ (bridge.tcp[w].far = "gone" /\ bridge.ws[w].state = "open")
           ~> (bridge.ws[w].state = "closed")
        /\ [](bridge.tcp[w].far = "gone" /\ bridge.ws[w].state = "closed"
              => bridge.ws[w].code \in {1000, 1011})


\* C31: on an authenticated connection, no step taken for a frame that
\* was read after the connection's successful LOGIN changes its
\* authenticated flag, its admin flag or its device id, puts it into a
\* further device group or adds it to the admin set, for as long as it
\* stays in the connection table.
C31_AuthSetOnce ==
    [][\A c \in Conns :
          (/\ InSeq(c, clients)
           /\ client_info[c].authenticated
           /\ InSeq(c, clients')
           /\ stk'[c] # << >>
           /\ stk'[c][1].was_auth)
          => /\ client_info'[c] = client_info[c]
             /\ Membership(device_connections', c)
                    <= Membership(device_connections, c)
             /\ (c \in admin_clients' => c \in admin_clients)]_vars


\* C32: a LOGIN whose payload is not JSON takes the payload as the token and
\* the connection's own identifier as the device id: the connection is
\* authenticated exactly when the payload is one of the two tokens, and its
\* device id is its identifier.  Once it is registered as a device, and for
\* as long as its session lasts, it is in the group keyed by its identifier,
\* and in no other when the LOGIN was its first frame; an envelope of such
\* a sender carries the sender's identifier as from, and when it is
\* addressed to a connection identifier it is written to that connection
\* only.
C32_LegacyLogin ==
    /\ \A c \in Conns :
           (stk[c] # << >> /\ stk[c][1].path = "legacy")
           => LET hc == stk[c][1] IN
              /\ client_info[c].device_id = c
              /\ hc.fr.type = HYPER_TCP_CMD_LOGIN
                 => /\ hc.fr.device_id = c
                    /\ client_info[c].authenticated
                           = (hc.fr.token \in {DEVICE_TOKEN, ADMIN_TOKEN})
                    /\ client_info[c].is_admin = (hc.fr.token = ADMIN_TOKEN)
              /\ hc.n = 1
                 => \A p \in Places(device_connections, c) :
                        device_connections[p[1]].key = c
              /\ (/\ client_info[c].authenticated
                  /\ ~client_info[c].is_admin
                  /\ InSeq(c, clients)
                  /\ hc.pc \in {"dev_count", "dev_notify", "after_reg", "loop",
                                "route", "routed", "ack"})
                 => InGroup(device_connections, c, c)
    /\ \A x \in Conns : \A k \in 1..Len(wire[x]) :
           LET m == wire[x][k].m IN
           (m.kind = "routed" /\ stk[m.cause[1]][1].path = "legacy")
           => /\ m.from = m.cause[1]
              /\ m.tgt \in Conns => m.tgt = x

\* C32, its case: two connections have logged in with the device token as
\* their whole payload, and the first holds the envelope the second
\* addressed to the first one's identifier.
C32_ReachedByOwnId ==
    \E c \in Conns : \E t \in Conns \ {c} : \E k \in 1..Len(wire[c]) :
        /\ stk[c] # << >>
        /\ stk[c][1].path = "legacy"
        /\ stk[t] # << >>
        /\ stk[t][1].path = "legacy"
        /\ InGroup(device_connections, c, c)
        /\ wire[c][k].part = "pay"
        /\ wire[c][k].m.kind = "routed"
        /\ wire[c][k].m.tgt = c
        /\ wire[c][k].m.from = t
        /\ wire[c][k].m.cause[1] = t

\* C33: no two connections that are registered in the connection table have
\* the same connection identifier, so that the entry of a registered
\* connection is never overwritten by the registration of another one.
C33_DistinctIds ==
    \A c \in Conns : \A d \in Conns \ {c} :
        (server.session[c].pc = "serving" /\ server.session[d].pc = "serving")
        => server.session[c].temp_client_id # server.session[d].temp_client_id

\* C34: when no session is inside a LOGIN or a cleanup, and no connection
\* has sent more than its LOGIN, an admin that is still connected can rebuild the device groups from its feed: the
\* connections it was told of by deviceStatus or deviceConnected and not by
\* a later deviceDisconnected are the connections listed in the device
\* groups, and each of them is still open.
C34_AdminViewConsistent ==
    \A x \in Conns :
        LET Told(k, evs, c) ==
                /\ wire[x][k].part = "pay"
                /\ wire[x][k].m.kind = "event"
                /\ wire[x][k].m.ev \in evs
                /\ wire[x][k].m.cid = c
            view ==
                {c \in Conns :
                    \E k \in 1..Len(wire[x]) :
                        /\ Told(k, {"deviceStatus", "deviceConnected"}, c)
                        /\ \A j \in (k + 1)..Len(wire[x]) :
                               ~Told(j, {"deviceDisconnected"}, c)}
        IN (/\ Listening(x)
            /\ client_info[x].is_admin
            /\ x \in admin_clients
            /\ Idle(x)
            /\ \A t \in Conns :
                   \/ stk[t] = << >>
                   \/ /\ stk[t][1].n <= 1
                      /\ \/ Idle(t)
                         \/ Len(stk[t]) = 1 /\ stk[t][1].pc \in {"done", "dead"})
           => /\ view = {c \in Conns : Membership(device_connections, c) > 0}
              /\ \A c \in view : Idle(c)

====
